---- MODULE Spec2Model ----
(***************************************************************************)
(* A model of mcp-openapi: the schema resolver (Config._process_schema),   *)
(* the spec loader (Config._from_api, Config._process_operation), the tool *)
(* descriptor builder and the invocation dispatcher.                       *)
(*                                                                         *)
(* Conventions.  An Optional value is a sequence of length 0 (None) or 1   *)
(* (the value).  A Python string that the code takes apart (a "$ref", a    *)
(* parameter name) is a sequence of its parts; other strings are TLA+      *)
(* strings, "" standing for None.                                          *)
(***************************************************************************)
EXTENDS Integers, Sequences, FiniteSets, TLC

VARIABLES
    api,          \* the document's components.schemas: name -> schema node
    max_depth,    \* the max_depth argument of the top-level calls of this run
    calls,        \* the top-level _process_schema calls so far: node, result, raised
    trace,        \* the call log of the last top-level call, one entry per return
    lastVisited,  \* the visited set as the last top-level call left it
    paths,        \* the document's paths, in document order: path, path item
    loads,        \* the Config._from_api calls so far: patterns, raised, paths
    operation,    \* the parsed Operation a tool is built from
    tool,         \* Optional: the Tool built from the operation
    requests,     \* the requests the tool's function handed to the proxy
    server_manager,  \* the ServerManager: config, servers, tools, routes
    config_file,  \* Optional: the configuration the file holds, when readable
    loop,         \* the event loop: the coroutines scheduled, the one running
    handler,      \* the ConfigFileHandler: last_modified
    now,          \* the clock, in seconds
    history,      \* the steps of the reloads so far, in the order they ran
    loaded,       \* the configurations load_config has read, in order
    reads         \* what the listing requests have observed

toolVars == <<api, max_depth, calls, trace, lastVisited, paths, loads,
              operation, tool, requests>>
managerVars == <<server_manager, config_file, loop, handler, now, history,
                 loaded, reads>>
vars == <<toolVars, managerVars>>

\* no ServerManager has been constructed in this run
NoManager ==
    /\ server_manager = <<>>
    /\ config_file = <<>>
    /\ loop = <<>>
    /\ handler = <<>>
    /\ now = 0
    /\ history = <<>>
    /\ loaded = <<>>
    /\ reads = <<>>

----------------------------------------------------------------------------
(* Optional values and small helpers *)

None == <<>>
Some(x) == <<x>>
Last(s) == s[Len(s)]

\* Python truthiness of an Optional[List]: None and [] are both falsy
Truthy(optlist) == optlist # None /\ optlist[1] # <<>>

\* "x or default" on a string
OrElse(s, d) == IF s = "" THEN d ELSE s

----------------------------------------------------------------------------
(* The input: schema nodes of the OpenAPI document *)

NoRef == <<>>

\* a schema node with nothing declared
Blank ==
    [ref |-> NoRef, type |-> "", properties |-> <<>>, items |-> None,
     allOf |-> <<>>, anyOf |-> <<>>, additionalProperties |-> FALSE,
     description |-> ""]

\* hasattr(schema, "ref")
HasRef(schema) == schema.ref # NoRef

\* schema.ref.split("/")[-1]
RefName(ref) == Last(ref)

\* the property schema declared under `name` (the target of a JSON pointer
\* .../properties/<name>)
PropertyNamed(props, name) ==
    LET i == CHOOSE j \in 1..Len(props) : props[j].name = name
    IN props[i].schema

\* the node a "$ref" really points at: "#/components/schemas/<n>" or
\* "#/components/schemas/<n>/properties/<p>"
PointerTarget(comps, ref) ==
    IF Len(ref) = 4 THEN comps[ref[4]]
    ELSE PropertyNamed(comps[ref[4]].properties, ref[6])

\* attribute access: a reference hands every attribute but "ref" to its target
RECURSIVE Attr(_, _)
Attr(comps, schema) ==
    IF HasRef(schema) THEN Attr(comps, PointerTarget(comps, schema.ref))
    ELSE schema

----------------------------------------------------------------------------
(* The output: Schema and SchemaProperty *)

\* SchemaProperty.type is a str or a list[str]
TStr(s) == [list |-> FALSE, v |-> <<s>>]
TList(l) == [list |-> TRUE, v |-> l]

SchemaProperty(name, type, description) ==
    [name |-> name, type |-> type, items |-> None, properties |-> None,
     description |-> description, any_of |-> None, all_of |-> None]

Schema(name, properties) == [name |-> name, properties |-> Some(properties)]

----------------------------------------------------------------------------
(* Config._process_schema *)

\* the state one top-level call threads through its recursion: the shared
\* visited set, the call log, and whether a KeyError is propagating
NewVisitedShared == lastVisited
NewVisited == {}

St0 == [visited |-> NewVisited, trace |-> <<>>, raised |-> FALSE]

Ret(res, st) == [res |-> res, st |-> st]
Raise(st) == [res |-> None, st |-> [st EXCEPT !.raised = TRUE]]

\* the call log: what each call of _process_schema was given and returned;
\* kind is "depth" (line 214), "cycle" (line 221) or "done"
Logged(st, depth, schema, kind, res) ==
    [st EXCEPT !.trace = Append(@, [depth |-> depth, schema |-> schema,
                                    kind |-> kind, res |-> res])]

\* line 213: the depth limit
DepthExceededOffByOne(depth, md) == depth > md
DepthExceeded(depth, md) == depth >= md

\* lines 218-220: the reference is in the visited set
SeenAddedFirst(schema, visited) == HasRef(schema)
Seen(schema, visited) == HasRef(schema) /\ schema.ref \in visited

\* lines 399-401: the merged properties of an allOf on a property
MergedIntoUnguarded(prop, a) ==
    [prop EXCEPT !.properties = Some(a.props), !.all_of = Some(a.schemas)]
MergedInto(prop, a) ==
    IF a.props # <<>>
    THEN [prop EXCEPT !.properties = Some(a.props), !.all_of = Some(a.schemas)]
    ELSE prop

\* types.append(sub_schema.type) when it is set
WithTypeUnchecked(types, t) == Append(types, t)
WithType(types, t) == IF t # "" THEN Append(types, t) ELSE types

\* "types if types else 'object'"
UnionType(types) == IF types # <<>> THEN TList(types) ELSE TStr("object")

\* Every call that re-enters the resolver goes through Call: a request names
\* the operator and carries its arguments.
RECURSIVE Call(_)

ProcessSchemaReq(comps, schema, depth, md, st) ==
    [op |-> "ProcessSchema", comps |-> comps, schema |-> schema,
     depth |-> depth, md |-> md, st |-> st]

LoopReq(op, comps, list, i, depth, md, acc) ==
    [op |-> op, comps |-> comps, list |-> list, i |-> i,
     depth |-> depth, md |-> md, acc |-> acc]

\* lines 237-252 and 383-398: resolve every allOf branch, keep each resolved
\* branch and extend the merged list by its properties
AllOfLoopRev(comps, subs, i, depth, md, acc) ==
    IF i > Len(subs) \/ acc.st.raised THEN acc
    ELSE LET r == Call(ProcessSchemaReq(comps, subs[i], depth + 1, md, acc.st))
             s == r.res[1]
             asProp == [SchemaProperty(s.name, TStr("object"),
                                       Attr(comps, subs[i]).description)
                           EXCEPT !.properties = s.properties]
         IN Call(LoopReq("AllOfLoop", comps, subs, i + 1, depth, md,
               IF r.st.raised \/ r.res = None
               THEN [acc EXCEPT !.st = r.st]
               ELSE [props |-> IF Truthy(s.properties)
                               THEN s.properties[1] \o acc.props
                               ELSE acc.props,
                     schemas |-> Append(acc.schemas, asProp),
                     st |-> r.st]))

AllOfLoop(comps, subs, i, depth, md, acc) ==
    IF i > Len(subs) \/ acc.st.raised THEN acc
    ELSE LET r == Call(ProcessSchemaReq(comps, subs[i], depth + 1, md, acc.st))
             s == r.res[1]
             asProp == [SchemaProperty(s.name, TStr("object"),
                                       Attr(comps, subs[i]).description)
                           EXCEPT !.properties = s.properties]
         IN Call(LoopReq("AllOfLoop", comps, subs, i + 1, depth, md,
               IF r.st.raised \/ r.res = None
               THEN [acc EXCEPT !.st = r.st]
               ELSE [props |-> IF Truthy(s.properties)
                               THEN acc.props \o s.properties[1]
                               ELSE acc.props,
                     schemas |-> Append(acc.schemas, asProp),
                     st |-> r.st]))

\* lines 274-281: the root anyOf loop
AnyOfLoop(comps, subs, i, depth, md, acc) ==
    IF i > Len(subs) \/ acc.st.raised THEN acc
    ELSE LET types == WithType(acc.types, Attr(comps, subs[i]).type)
             r == Call(ProcessSchemaReq(comps, subs[i], depth + 1, md, acc.st))
         IN Call(LoopReq("AnyOfLoop", comps, subs, i + 1, depth, md,
               IF r.st.raised THEN [acc EXCEPT !.st = r.st]
               ELSE [types |-> types,
                     props |-> IF r.res # None /\ Truthy(r.res[1].properties)
                               THEN acc.props \o r.res[1].properties[1]
                               ELSE acc.props,
                     st |-> r.st]))

\* lines 357-373 and 415-431: anyOf on an object property keeps one entry
\* per resolved branch
InlineAnyOfLoop(comps, subs, i, depth, md, acc) ==
    IF i > Len(subs) \/ acc.st.raised THEN acc
    ELSE LET sub == Attr(comps, subs[i])
             types == WithType(acc.types, sub.type)
             r == Call(ProcessSchemaReq(comps, subs[i], depth + 1, md, acc.st))
             asProp == [SchemaProperty(r.res[1].name,
                                       TStr(OrElse(sub.type, "object")),
                                       sub.description)
                           EXCEPT !.properties = r.res[1].properties]
         IN Call(LoopReq("InlineAnyOfLoop", comps, subs, i + 1, depth, md,
               IF r.st.raised THEN [acc EXCEPT !.st = r.st]
               ELSE [types |-> types,
                     schemas |-> IF r.res # None
                                 THEN Append(acc.schemas, asProp)
                                 ELSE acc.schemas,
                     st |-> r.st]))

\* lines 311-331: the properties of a referenced array item
ItemPropertiesLoop(comps, props, i, depth, md, acc) ==
    IF i > Len(props) \/ acc.st.raised THEN acc
    ELSE LET ips == props[i].schema
             ipt == OrElse(Attr(comps, ips).type, "object")
             item_prop == SchemaProperty(props[i].name, TStr(ipt),
                                         Attr(comps, ips).description)
             r == Call(ProcessSchemaReq(comps, ips, depth + 1, md, acc.st))
         IN Call(LoopReq("ItemPropertiesLoop", comps, props, i + 1, depth, md,
               IF ipt # "object"
               THEN [acc EXCEPT !.props = Append(@, item_prop)]
               ELSE IF r.st.raised THEN [acc EXCEPT !.st = r.st]
               ELSE [props |-> Append(acc.props,
                                 IF r.res # None
                                 THEN [item_prop EXCEPT
                                          !.properties = r.res[1].properties]
                                 ELSE item_prop),
                     st |-> r.st]))

\* lines 406-446: the declared properties of an inline object property
NestedLoop(comps, props, i, depth, md, acc) ==
    IF i > Len(props) \/ acc.st.raised THEN acc
    ELSE LET ns == props[i].schema
             N == Attr(comps, ns)
             u == Call(LoopReq("InlineAnyOfLoop", comps, N.anyOf, 1, depth, md,
                     [types |-> <<>>, schemas |-> <<>>, st |-> acc.st]))
             r == Call(ProcessSchemaReq(comps, ns, depth + 1, md, acc.st))
         IN Call(LoopReq("NestedLoop", comps, props, i + 1, depth, md,
               IF N.anyOf # <<>>
               THEN [props |-> IF u.st.raised THEN acc.props
                               ELSE Append(acc.props,
                                      [SchemaProperty(props[i].name,
                                                      UnionType(u.types),
                                                      N.description)
                                          EXCEPT !.any_of = Some(u.schemas)]),
                     st |-> u.st]
               ELSE [props |-> IF ~r.st.raised /\ r.res # None
                                  /\ Truthy(r.res[1].properties)
                               THEN Append(acc.props,
                                      [r.res[1].properties[1][1]
                                          EXCEPT !.name = props[i].name])
                               ELSE acc.props,
                     st |-> r.st]))

\* lines 304-344: an array-typed property with items
ArrayProperty(comps, prop, P, depth, md, st) ==
    LET item_schema == P.items[1]
        item_name == RefName(item_schema.ref)
        RI == Attr(comps, comps[item_name])
        lp == Call(LoopReq("ItemPropertiesLoop", comps, RI.properties, 1, depth, md,
                 [props |-> <<>>, st |-> st]))
        I == Attr(comps, item_schema)
    IN IF HasRef(item_schema)
       THEN IF item_name \notin DOMAIN comps
            THEN [prop |-> prop, st |-> [st EXCEPT !.raised = TRUE]]
            ELSE IF RI.type = "object"
            THEN [prop |-> [prop EXCEPT !.items =
                              Some([SchemaProperty(item_name, TStr("object"),
                                                   I.description)
                                      EXCEPT !.properties = Some(lp.props)])],
                  st |-> lp.st]
            ELSE [prop |-> prop, st |-> st]
       ELSE [prop |-> [prop EXCEPT !.items =
                         Some(SchemaProperty("item",
                                TStr(OrElse(item_schema.type, "object")),
                                item_schema.description))],
             st |-> st]

\* lines 346-448: an object-typed property
ObjectProperty(comps, prop, prop_schema, P, depth, md, st) ==
    LET r == Call(ProcessSchemaReq(comps, prop_schema, depth + 1, md, st))
        u == Call(LoopReq("InlineAnyOfLoop", comps, P.anyOf, 1, depth, md,
                [types |-> <<>>, schemas |-> <<>>, st |-> st]))
        a == Call(LoopReq("AllOfLoop", comps, P.allOf, 1, depth, md,
                [props |-> <<>>, schemas |-> <<>>, st |-> st]))
        n == Call(LoopReq("NestedLoop", comps, P.properties, 1, depth, md,
                [props |-> <<>>, st |-> st]))
    IN IF HasRef(prop_schema)
       THEN [prop |-> IF ~r.st.raised /\ r.res # None
                      THEN [prop EXCEPT !.properties = r.res[1].properties]
                      ELSE prop,
             st |-> r.st]
       ELSE IF P.anyOf # <<>>
       THEN [prop |-> [prop EXCEPT !.type = UnionType(u.types),
                                   !.any_of = Some(u.schemas),
                                   !.properties = None],
             st |-> u.st]
       ELSE IF P.allOf # <<>>
       THEN [prop |-> MergedInto(prop, a), st |-> a.st]
       ELSE IF P.additionalProperties
       THEN [prop |-> [prop EXCEPT !.properties = None], st |-> st]
       ELSE [prop |-> [prop EXCEPT !.properties = Some(n.props)], st |-> n.st]

\* lines 297-450: the declared properties of the resolved schema, in order
PropertiesLoop(comps, props, i, depth, md, acc) ==
    IF i > Len(props) \/ acc.st.raised THEN acc
    ELSE LET prop_schema == props[i].schema
             P == Attr(comps, prop_schema)
             prop_type == OrElse(P.type, "object")
             prop == SchemaProperty(props[i].name, TStr(prop_type), P.description)
             done == IF prop_type = "array" /\ P.items # None
                     THEN ArrayProperty(comps, prop, P, depth, md, acc.st)
                     ELSE IF prop_type = "object"
                     THEN ObjectProperty(comps, prop, prop_schema, P, depth, md,
                                         acc.st)
                     ELSE [prop |-> prop, st |-> acc.st]
         IN Call(LoopReq("PropertiesLoop", comps, props, i + 1, depth, md,
               IF done.st.raised THEN [acc EXCEPT !.st = done.st]
               ELSE [props |-> Append(acc.props, done.prop), st |-> done.st]))

\* lines 225-479: the schema is within the depth limit and not yet visited
Body(comps, schema, depth, md, st) ==
    LET schema_name == IF HasRef(schema) THEN RefName(schema.ref) ELSE "inline"
        resolved_schema == IF HasRef(schema) THEN comps[schema_name] ELSE schema
        R == Attr(comps, resolved_schema)
        a == Call(LoopReq("AllOfLoop", comps, R.allOf, 1, depth, md,
                [props |-> <<>>, schemas |-> <<>>, st |-> st]))
        u == Call(LoopReq("AnyOfLoop", comps, R.anyOf, 1, depth, md,
                [types |-> <<>>, props |-> <<>>, st |-> st]))
        p == Call(LoopReq("PropertiesLoop", comps, R.properties, 1, depth, md,
                [props |-> <<>>, st |-> st]))
        it == Call(ProcessSchemaReq(comps, R.items[1], depth + 1, md, st))
        I == Attr(comps, R.items[1])
    IN IF HasRef(schema) /\ schema_name \notin DOMAIN comps THEN Raise(st)
       ELSE IF R.allOf # <<>>
       THEN IF a.st.raised THEN Raise(a.st)
            ELSE IF a.props # <<>>
            THEN Ret(Some(Schema(schema_name,
                    << [SchemaProperty("merged", TStr("object"), R.description)
                          EXCEPT !.properties = Some(a.props),
                                 !.all_of = Some(a.schemas)] >>)), a.st)
            ELSE Ret(None, a.st)
       ELSE IF R.anyOf # <<>>
       THEN IF u.st.raised THEN Raise(u.st)
            ELSE Ret(Some(Schema(schema_name,
                    << [SchemaProperty("any_of", UnionType(u.types), R.description)
                          EXCEPT !.any_of = IF u.props # <<>> THEN Some(u.props)
                                            ELSE None] >>)), u.st)
       ELSE IF R.properties # <<>>
       THEN IF p.st.raised THEN Raise(p.st)
            ELSE Ret(Some(Schema(schema_name, p.props)), p.st)
       ELSE IF R.type = "array"
       THEN IF R.items = None THEN Ret(Some(Schema(schema_name, <<>>)), st)
            ELSE IF it.st.raised THEN Raise(it.st)
            ELSE IF it.res = None THEN Ret(Some(Schema(schema_name, <<>>)), it.st)
            ELSE Ret(Some(Schema(schema_name,
                    << [SchemaProperty("inline", TStr("array"), R.description)
                          EXCEPT !.items =
                             Some([SchemaProperty("item",
                                      TStr(OrElse(I.type, "object")),
                                      I.description)
                                   EXCEPT !.properties = it.res[1].properties])]
                    >>)), it.st)
       ELSE Ret(Some(Schema(schema_name, <<>>)), st)

\* lines 204-223: the depth guard and the visited set, then the body
ProcessSchema(comps, schema, depth, md, st) ==
    IF DepthExceeded(depth, md)
    THEN Ret(None, Logged(st, depth, schema, "depth", None))
    ELSE IF Seen(schema, st.visited)
    THEN Ret(None, Logged(st, depth, schema, "cycle", None))
    ELSE LET st1 == IF HasRef(schema)
                    THEN [st EXCEPT !.visited = @ \cup {schema.ref}]
                    ELSE st
             b == Body(comps, schema, depth, md, st1)
         IN IF b.st.raised THEN b
            ELSE Ret(b.res, Logged(b.st, depth, schema, "done", b.res))

\* the call itself: the named operator applied to the request's arguments
Call(req) ==
    CASE req.op = "ProcessSchema" ->
           ProcessSchema(req.comps, req.schema, req.depth, req.md, req.st)
      [] req.op = "AllOfLoop" ->
           AllOfLoop(req.comps, req.list, req.i, req.depth, req.md, req.acc)
      [] req.op = "AnyOfLoop" ->
           AnyOfLoop(req.comps, req.list, req.i, req.depth, req.md, req.acc)
      [] req.op = "InlineAnyOfLoop" ->
           InlineAnyOfLoop(req.comps, req.list, req.i, req.depth, req.md, req.acc)
      [] req.op = "ItemPropertiesLoop" ->
           ItemPropertiesLoop(req.comps, req.list, req.i, req.depth, req.md, req.acc)
      [] req.op = "NestedLoop" ->
           NestedLoop(req.comps, req.list, req.i, req.depth, req.md, req.acc)
      [] req.op = "PropertiesLoop" ->
           PropertiesLoop(req.comps, req.list, req.i, req.depth, req.md, req.acc)

----------------------------------------------------------------------------
(* The documents the resolver is run on *)

\* program constant: the default of max_depth
DefaultMaxDepth == 10

\* bounds of the model
MaxDepthArg == 3     \* max_depth is 1..MaxDepthArg or the default
MaxCalls == 3        \* top-level calls in one run

CompRef(n) == <<"#", "components", "schemas", n>>
PropRef(n, p) == <<"#", "components", "schemas", n, "properties", p>>

Ref(n) == [Blank EXCEPT !.ref = CompRef(n)]
Ptr(n, p) == [Blank EXCEPT !.ref = PropRef(n, p)]
StrS == [Blank EXCEPT !.type = "string", !.description = "a string"]
IntS == [Blank EXCEPT !.type = "integer", !.description = "an integer"]
Prop(name, schema) == [name |-> name, schema |-> schema]
Obj(props) == [Blank EXCEPT !.type = "object", !.properties = props]
Untyped(props) == [Blank EXCEPT !.properties = props]
AllOf(subs) == [Blank EXCEPT !.allOf = subs]
AnyOf(subs) == [Blank EXCEPT !.anyOf = subs, !.description = "a union"]
Arr(item) == [Blank EXCEPT !.type = "array", !.items = Some(item)]
OpenMap == [Blank EXCEPT !.type = "object", !.additionalProperties = TRUE]

\* a chain of arrays: the items of each array are resolved one call deeper,
\* so the object at the end of Nest(k) is resolved at depth k
RECURSIVE Nest(_)
Nest(k) ==
    IF k = 0 THEN Obj(<<Prop("z", StrS)>>)
    ELSE Arr(Nest(k - 1))

Leaf == Obj(<<Prop("p", StrS), Prop("q", IntS)>>)

MaxDepths == (1..MaxDepthArg) \cup {DefaultMaxDepth}
ChainLens == {k \in 0..DefaultMaxDepth : \E m \in MaxDepths : k \in {m - 1, m}}

\* the shapes of component A, around a reference to component t
ShapesOf(t) ==
    { Obj(<<Prop("x", Ref(t))>>),
      Obj(<<Prop("x", Ref(t)), Prop("y", Ref(t))>>),
      Untyped(<<Prop("s", StrS), Prop("x", Ref(t)), Prop("i", IntS)>>),
      AllOf(<<Ref(t)>>),
      AllOf(<<Ref(t), Obj(<<Prop("k", StrS)>>)>>),
      AllOf(<<Obj(<<Prop("k", StrS)>>), Obj(<<Prop("l", IntS), Prop("m", StrS)>>)>>),
      AnyOf(<<Ref(t), StrS>>),
      AnyOf(<<StrS, IntS>>),
      AnyOf(<<Obj(<<Prop("k", StrS)>>), Ref(t)>>),
      AnyOf(<<Ref(t), Untyped(<<Prop("k", StrS)>>)>>),
      [AllOf(<<Ref(t)>>) EXCEPT !.anyOf = <<StrS>>],
      Arr(Ref(t)),
      Arr(StrS),
      [Blank EXCEPT !.type = "array"],
      Obj(<<Prop("x", Arr(Ref(t))), Prop("y", Arr(IntS))>>),
      Obj(<<Prop("x", AnyOf(<<Ref(t), StrS>>))>>),
      Obj(<<Prop("x", AllOf(<<Ref(t), Obj(<<Prop("k", StrS)>>)>>))>>),
      Obj(<<Prop("x", AllOf(<<Ref(t), StrS>>))>>),
      Obj(<<Prop("x", Obj(<<Prop("n", Ref(t)), Prop("m", StrS)>>))>>),
      Obj(<<Prop("x", Obj(<<Prop("n", AnyOf(<<Ref(t), StrS>>))>>))>>),
      Obj(<<Prop("x", OpenMap), Prop("y", Ref(t))>>),
      Obj(<<Prop("o", Obj(<<Prop("v", StrS)>>)), Prop("x", Ptr("A", "o")),
            Prop("y", Ref(t))>>) }

\* the shapes of component B: a leaf, or a way back to A
ShapesOfB ==
    { Leaf,
      Obj(<<Prop("x", Ref("A")), Prop("w", Obj(<<Prop("v", Leaf)>>))>>),
      AllOf(<<Ref("A")>>),
      AnyOf(<<Ref("A"), IntS>>) }

Docs ==
    { [n \in {"A", "B", "C"} |->
         IF n = "A" THEN a ELSE IF n = "B" THEN b ELSE Leaf] :
      a \in UNION {ShapesOf(t) : t \in {"A", "B", "C"}}, b \in ShapesOfB }
    \cup
    { [n \in {"A", "B", "C"} |-> IF n = "A" THEN Nest(k) ELSE Leaf] :
      k \in ChainLens }

Roots == {Ref("A"), Ref("B")}

----------------------------------------------------------------------------
(* The resolver as a state machine: top-level calls on one document *)

Init ==
    /\ api \in Docs
    /\ max_depth \in MaxDepths
    /\ calls = <<>>
    /\ trace = <<>>
    /\ lastVisited = {}
    /\ paths = <<>>
    /\ loads = <<>>
    /\ operation = <<>>
    /\ tool = <<>>
    /\ requests = <<>>
    /\ NoManager

\* a top-level call, as _process_operation makes it: depth 0, no visited set
ProcessSchemaCall(schema) ==
    /\ Len(calls) < MaxCalls
    /\ LET r == Call(ProcessSchemaReq(api, schema, 0, max_depth, St0))
       IN /\ calls' = Append(calls, [schema |-> schema, res |-> r.res,
                                     raised |-> r.st.raised])
          /\ trace' = r.st.trace
          /\ lastVisited' = r.st.visited
    /\ UNCHANGED <<api, max_depth, paths, loads, operation, tool, requests>>
    /\ UNCHANGED managerVars

Next == \E schema \in Roots : ProcessSchemaCall(schema)

Spec == Init /\ [][Next]_vars

----------------------------------------------------------------------------
(* Reading the state *)

Called == calls # <<>>
LastCall == calls[Len(calls)]
Returned == Called /\ ~LastCall.raised

\* the schema a logged call worked on: the component its reference names
Resolved(schema) ==
    IF HasRef(schema) THEN Attr(api, api[RefName(schema.ref)]) ELSE schema

\* in the call log (callees are logged before their caller), entry j is the
\* call that entry i was made under, directly or not
Ancestor(i, j) ==
    /\ i < j
    /\ trace[j].depth < trace[i].depth
    /\ \A k \in (i + 1)..(j - 1) : trace[k].depth > trace[j].depth

\* the calls the top-level call made itself, in order
Branches == SelectSeq(trace, LAMBDA e : e.depth = 1)

RECURSIVE ConcatProperties(_)
ConcatProperties(entries) ==
    IF entries = <<>> THEN <<>>
    ELSE (IF entries[1].res # None /\ Truthy(entries[1].res[1].properties)
          THEN entries[1].res[1].properties[1] ELSE <<>>)
         \o ConcatProperties(Tail(entries))

Names(props) == [i \in DOMAIN props |-> props[i].name]

----------------------------------------------------------------------------
(* C1: cycles *)

\* C1 (as amended): a top-level call on a reference returns; no reference is
\* expanded inside its own expansion, a call cut by the cycle check returns
\* null, and the result is a Schema unless the schema is an allOf none of
\* whose branches yields a property.
C1_CyclesAreCut ==
    Returned =>
        /\ \A i, j \in DOMAIN trace :
              (Ancestor(i, j) /\ HasRef(trace[i].schema) /\ trace[i].kind = "done")
                 => trace[j].schema.ref # trace[i].schema.ref
        /\ \A i \in DOMAIN trace : trace[i].kind = "cycle" => trace[i].res = None
        /\ LastCall.res = None =>
              /\ Resolved(LastCall.schema).allOf # <<>>
              /\ ConcatProperties(Branches) = <<>>

\* a reference was re-entered under its own expansion and cut, and the
\* top-level call still returned a Schema
C1_Witness ==
    /\ Returned
    /\ LastCall.res # None
    /\ \E i, j \in DOMAIN trace :
          /\ Ancestor(i, j)
          /\ trace[i].kind = "cycle"
          /\ trace[j].schema.ref = trace[i].schema.ref

\* C1 as stated: whenever the depth limit plays no part, the call on a
\* reference returns a non-null Schema
C1_Original ==
    (Returned /\ \A i \in DOMAIN trace : trace[i].kind # "depth")
        => LastCall.res # None

----------------------------------------------------------------------------
(* C2: the depth guard *)

\* C2 (as amended): with max_depth = N the calls at depth N, and only they,
\* are cut by the depth guard and return null; a call at a depth below N that
\* ran returns a Schema unless it is an allOf left without any property, so
\* the enclosing schemas are still returned.
C2_DepthGuard ==
    Returned =>
        \A i \in DOMAIN trace :
            /\ trace[i].depth <= max_depth
            /\ (trace[i].kind = "depth") = (trace[i].depth = max_depth)
            /\ trace[i].kind = "depth" => trace[i].res = None
            /\ (trace[i].kind = "done" /\ trace[i].res = None)
                  => Resolved(trace[i].schema).allOf # <<>>

\* under the default limit, a node at depth N - 1 resolved, the node below
\* it was cut, and the top-level schema was returned
C2_Witness ==
    /\ Returned
    /\ max_depth = DefaultMaxDepth
    /\ LastCall.res # None
    /\ \E i, j \in DOMAIN trace :
          /\ Ancestor(i, j)
          /\ trace[j].depth = max_depth - 1
          /\ trace[j].kind = "done" /\ trace[j].res # None
          /\ trace[i].depth = max_depth /\ trace[i].kind = "depth"

\* C2 as stated: a node nested exactly at depth N is not cut by the guard
C2_Original ==
    Returned =>
        \A i \in DOMAIN trace :
            trace[i].depth <= max_depth => trace[i].kind # "depth"

----------------------------------------------------------------------------
(* C3: cycle detection and sibling branches *)

\* C3: a reference resolves to null by cycle detection only when the same
\* reference is on the current recursion path, so that sibling properties
\* referring to one component both resolve to it
C3_CycleOnlyOnPath ==
    Returned =>
        \A i \in DOMAIN trace :
            trace[i].kind = "cycle" =>
                \E j \in DOMAIN trace :
                    Ancestor(i, j) /\ trace[j].schema.ref = trace[i].schema.ref

----------------------------------------------------------------------------
(* C4: allOf at the root of a schema *)

Root == Resolved(LastCall.schema)
ResolvedBranches == SelectSeq(Branches, LAMBDA e : e.res # None)
Result == LastCall.res[1].properties[1]

\* an inline object whose declared properties are all scalars
PlainObject(schema) ==
    /\ ~HasRef(schema) /\ schema.allOf = <<>> /\ schema.anyOf = <<>>
    /\ schema.properties # <<>>
    /\ \A i \in DOMAIN schema.properties :
          schema.properties[i].schema.type \in {"string", "integer"}

RECURSIVE DeclaredNames(_)
DeclaredNames(subs) ==
    IF subs = <<>> THEN <<>>
    ELSE Names(subs[1].properties) \o DeclaredNames(Tail(subs))

\* C4: an allOf resolves every branch in order; the result is null when no
\* branch yields a property, and otherwise holds the single property
\* "merged" whose properties are the branches' properties concatenated in
\* branch order and whose all_of has one entry per resolved branch.
C4_AllOfMerged ==
    (Returned /\ Root.allOf # <<>>) =>
        /\ [i \in DOMAIN Branches |-> Branches[i].schema] = Root.allOf
        /\ IF ConcatProperties(Branches) = <<>>
           THEN LastCall.res = None
           ELSE /\ LastCall.res # None
                /\ Len(Result) = 1
                /\ Result[1].name = "merged"
                /\ Result[1].properties = Some(ConcatProperties(Branches))
                /\ Result[1].all_of # None
                /\ [i \in DOMAIN Result[1].all_of[1] |->
                       Result[1].all_of[1][i].properties]
                     = [i \in DOMAIN ResolvedBranches |->
                       ResolvedBranches[i].res[1].properties]
        /\ (max_depth > 1 /\ \A i \in DOMAIN Root.allOf : PlainObject(Root.allOf[i]))
              => /\ LastCall.res # None
                 /\ Names(Result[1].properties[1]) = DeclaredNames(Root.allOf)

\* two object branches with disjoint property sets were merged
C4_Witness ==
    /\ Returned
    /\ Len(Root.allOf) = 2
    /\ \A i \in DOMAIN Root.allOf : PlainObject(Root.allOf[i])
    /\ LastCall.res # None
    /\ Names(Result[1].properties[1]) = <<"k", "l", "m">>
    /\ Len(Result[1].all_of[1]) = 2

----------------------------------------------------------------------------
(* C5: anyOf at the root of a schema *)

RECURSIVE DeclaredTypes(_)
DeclaredTypes(subs) ==
    IF subs = <<>> THEN <<>>
    ELSE (IF Attr(api, subs[1]).type # "" THEN <<Attr(api, subs[1]).type>>
          ELSE <<>>)
         \o DeclaredTypes(Tail(subs))

\* the union the anyOf rule describes
IsUnionOfBranches ==
    /\ LastCall.res # None
    /\ Len(Result) = 1
    /\ Result[1].name = "any_of"
    /\ Result[1].type = IF DeclaredTypes(Root.anyOf) = <<>> THEN TStr("object")
                        ELSE TList(DeclaredTypes(Root.anyOf))
    /\ Result[1].any_of = IF ConcatProperties(Branches) = <<>> THEN None
                          ELSE Some(ConcatProperties(Branches))
    /\ Result[1].properties = None /\ Result[1].all_of = None

\* C5 (as amended): a schema with anyOf and no allOf resolves to a Schema
\* with the single property "any_of": its type is the list of the branches'
\* declared types in order, or "object" when none declares one; unresolved
\* branches are skipped; any_of is null when no branch has properties.
C5_AnyOfUnion ==
    (Returned /\ Root.anyOf # <<>> /\ Root.allOf = <<>>) =>
        /\ [i \in DOMAIN Branches |-> Branches[i].schema] = Root.anyOf
        /\ IsUnionOfBranches

\* a union with a skipped branch and a branch with properties
C5_Witness ==
    /\ Returned /\ Root.anyOf # <<>> /\ Root.allOf = <<>>
    /\ max_depth > 1
    /\ \E i \in DOMAIN Branches : Branches[i].res = None
    /\ Result[1].any_of # None
    /\ Result[1].type.list

\* C5 as stated: every schema with anyOf resolves to that union
C5_Original ==
    (Returned /\ Root.anyOf # <<>>) => IsUnionOfBranches

----------------------------------------------------------------------------
(* C6: determinism and order *)

----------------------------------------------------------------------------
(* C7: the SchemaProperty invariant *)

\* every SchemaProperty of a list, at any depth
RECURSIVE NodesOf(_)
NodesOf(props) ==
    UNION { {props[i]}
            \cup NodesOf(props[i].items)
            \cup (IF props[i].properties # None
                  THEN NodesOf(props[i].properties[1]) ELSE {})
            \cup (IF props[i].any_of # None
                  THEN NodesOf(props[i].any_of[1]) ELSE {})
            \cup (IF props[i].all_of # None
                  THEN NodesOf(props[i].all_of[1]) ELSE {})
          : i \in DOMAIN props }

Produced == IF Returned /\ LastCall.res # None THEN NodesOf(Result) ELSE {}

ItemsOnlyOnArrays(n) == n.items # None => n.type = TStr("array")

\* C7 (as amended): a node with any_of populated has neither properties
\* nor all_of populated; all_of is set only on a node that also carries the
\* merged properties; items is set only on a node of type "array".
C7_NodeInvariant ==
    \A n \in Produced :
        /\ Truthy(n.any_of) => (~Truthy(n.properties) /\ ~Truthy(n.all_of))
        /\ n.all_of # None => Truthy(n.properties)
        /\ ItemsOnlyOnArrays(n)

\* a merged node, a union node and an array node were produced
C7_Witness ==
    /\ \E n \in Produced : Truthy(n.all_of) /\ Truthy(n.properties)
    /\ \E n \in Produced : n.items # None

\* C7 as stated: at most one of properties, any_of and all_of is populated
C7_Original ==
    \A n \in Produced :
        /\ Cardinality({f \in {"properties", "any_of", "all_of"} :
                           Truthy(n[f])}) <= 1
        /\ ItemsOnlyOnArrays(n)

----------------------------------------------------------------------------
(* The spec loader: Config._from_api and Config._process_operation *)

\* re.compile(pattern).match(path): the pattern, a sequence of literal
\* characters and "." (any one character), matches at the start of the path
Match(pattern, path) ==
    /\ Len(pattern) <= Len(path)
    /\ \A i \in 1..Len(pattern) : pattern[i] = "." \/ pattern[i] = path[i]

\* a path is kept only when every pattern matches it
MatchesAll(path_patterns, path) ==
    \A k \in 1..Len(path_patterns) : Match(path_patterns[k], path)

\* any(pattern.match(path) for pattern in compiled_patterns)
MatchesAny(path_patterns, path) ==
    \E k \in 1..Len(path_patterns) : Match(path_patterns[k], path)

\* bool(getattr(x, "required", False))
Bool(opt) == opt # None /\ opt[1]

\* truthiness of a schema's default: None, 0 and [] are falsy
TruthyValue(opt) ==
    /\ opt # None
    /\ CASE opt[1].kind = "int" -> opt[1].v # 0
         [] opt[1].kind = "list" -> opt[1].v # <<>>

\* "<media type>" in content, and content["<media type>"]
HasMedia(content, media) == \E i \in 1..Len(content) : content[i].media = media
Media(content, media) ==
    content[CHOOSE i \in 1..Len(content) : content[i].media = media]

\* the Parameter with the required flag as declared, enum or not
ParameterDeclaredRequired(param) ==
    [name |-> param.name, in_ |-> param.in_,
     required |-> Bool(param.required),
     description |-> param.description, type |-> param.schema_.type,
     enum |-> IF Truthy(param.schema_.enum) THEN param.schema_.enum ELSE None,
     default |-> IF TruthyValue(param.schema_.default) THEN param.schema_.default ELSE None]

\* lines 485-505: one processed parameter
Parameter(param) ==
    [name |-> param.name,
     in_ |-> param.in_,
     required |-> IF Truthy(param.schema_.enum) THEN TRUE
                  ELSE Bool(param.required),
     description |-> param.description,
     type |-> param.schema_.type,
     enum |-> IF Truthy(param.schema_.enum) THEN param.schema_.enum ELSE None,
     default |-> IF TruthyValue(param.schema_.default)
                 THEN param.schema_.default ELSE None]

\* a call of _process_schema(schema, api): depth 0, max_depth 10, no visited
ProcessSchemaTop(comps, schema) ==
    Call(ProcessSchemaReq(comps, schema, 0, DefaultMaxDepth, St0))

\* lines 507-521: the responses, in the order of the document
RECURSIVE ResponsesLoop(_, _, _, _)
ResponsesLoop(comps, responses, i, acc) ==
    IF i > Len(responses) \/ acc.raised THEN acc
    ELSE LET response == responses[i]
             processed(json, r) ==
                 IF json /\ r.st.raised THEN [acc EXCEPT !.raised = TRUE]
                 ELSE [acc EXCEPT !.out = Append(@,
                         [status |-> response.status,
                          description |-> response.description,
                          content |-> response.content,
                          schema_ |-> IF json THEN r.res ELSE None,
                          format |-> IF json THEN "application/json"
                                     ELSE "text/plain"])]
         IN ResponsesLoop(comps, responses, i + 1,
               processed(HasMedia(response.content, "application/json"),
                         ProcessSchemaTop(comps,
                            Media(response.content, "application/json").schema_[1])))

\* lines 523-567: the request body; form-encoded content is looked at first
ProcessRequestBody(comps, requestBody) ==
    LET content == requestBody.content
        form == Media(content, "application/x-www-form-urlencoded")
        built(schema, encoding) ==
            Some([description |-> requestBody.description,
                  content |-> content,
                  required |-> Bool(requestBody.required),
                  schema_ |-> schema,
                  encoding |-> encoding])
        \* r is the result of the _process_schema call the branch makes
        processed(r) ==
            IF HasMedia(content, "application/x-www-form-urlencoded")
            THEN IF form.schema_ # None /\ r.st.raised
                 THEN [raised |-> TRUE, body |-> None]
                 ELSE [raised |-> FALSE,
                       body |-> built(IF form.schema_ # None THEN r.res ELSE None,
                                      IF form.encoding # <<>>
                                      THEN Some(form.encoding) ELSE None)]
            ELSE IF HasMedia(content, "application/json")
            THEN IF r.st.raised THEN [raised |-> TRUE, body |-> None]
                 ELSE [raised |-> FALSE, body |-> built(r.res, None)]
            ELSE [raised |-> FALSE, body |-> built(None, None)]
    IN processed(ProcessSchemaTop(comps,
                    IF HasMedia(content, "application/x-www-form-urlencoded")
                    THEN form.schema_[1]
                    ELSE Media(content, "application/json").schema_[1]))

\* lines 481-577: an operation of the document becomes an Operation, unless a
\* lookup in components.schemas raises
ProcessOperation(comps, path_name, op) ==
    LET processed_params ==
            [i \in 1..Len(op.parameters) |-> Parameter(op.parameters[i])]
        processed(rs, rb) ==
            IF rs.raised \/ rb.raised THEN [raised |-> TRUE, op |-> None]
            ELSE [raised |-> FALSE,
                  op |-> Some([id |-> IF op.operationId # <<>> THEN op.operationId
                                      ELSE path_name,
                               summary |-> op.summary,
                               description |-> op.description,
                               parameters |-> processed_params,
                               request_body_ |-> rb.body,
                               responses |-> rs.out])]
    IN processed(ResponsesLoop(comps, op.responses, 1,
                               [out |-> <<>>, raised |-> FALSE]),
                 IF op.requestBody # None
                 THEN ProcessRequestBody(comps, op.requestBody[1])
                 ELSE [raised |-> FALSE, body |-> None])

Methods == {"get", "post", "put", "delete", "patch"}

\* lines 181-194: the operations of one matching path
ProcessedPath(comps, p) ==
    LET processed_path(r) ==
            [raised |-> \E m \in Methods : r[m].raised,
             path |-> [path |-> p.path, get |-> r["get"].op,
                       post |-> r["post"].op, put |-> r["put"].op,
                       delete |-> r["delete"].op, patch |-> r["patch"].op]]
    IN processed_path([m \in Methods |->
                         IF p.item[m] # None
                         THEN ProcessOperation(comps, p.path, p.item[m][1])
                         ELSE [raised |-> FALSE, op |-> None]])

\* lines 171-196: nothing catches an exception of _process_operation, the
\* first one ends the call
FromApi(comps, doc_paths, path_patterns) ==
    LET matching == SelectSeq(doc_paths,
                              LAMBDA p : MatchesAny(path_patterns, p.path))
        config(processed) ==
            IF \E i \in 1..Len(matching) : processed[i].raised
            THEN [raised |-> TRUE, paths |-> <<>>]
            ELSE [raised |-> FALSE,
                  paths |-> [i \in 1..Len(matching) |-> processed[i].path]]
    IN config([i \in 1..Len(matching) |-> ProcessedPath(comps, matching[i])])

----------------------------------------------------------------------------
(* The documents the loader is run on *)

MaxLoads == 2        \* _from_api calls in one run

IntV(n) == [kind |-> "int", v |-> n]
ListV(l) == [kind |-> "list", v |-> l]

ParamNode(name, required, type, enum, default) ==
    [name |-> name, in_ |-> "query", required |-> required,
     description |-> <<"d">>,
     schema_ |-> [type |-> type, enum |-> enum, default |-> default]]

MediaType(media, schema) ==
    [media |-> media, schema_ |-> schema, encoding |-> <<>>]

ResponseNode(status, content) ==
    [status |-> status, description |-> "a response", content |-> content]

OperationNode(id, params, responses, body) ==
    [operationId |-> id, summary |-> "", description |-> "",
     parameters |-> params, responses |-> responses, requestBody |-> body]

BodyNode(content) ==
    [description |-> "a body", required |-> None, content |-> content]

NoOperations == [m \in Methods |-> None]

QueryParams ==
    << ParamNode(<<"q">>, None, "string", Some(<< <<"x">>, <<"y">> >>), None),
       ParamNode(<<"n">>, Some(FALSE), "integer", None, Some(IntV(0))),
       ParamNode(<<"m">>, Some(TRUE), "integer", Some(<<>>), Some(IntV(5))),
       ParamNode(<<"l", "[", "]">>, None, "array", None, Some(ListV(<<>>))),
       ParamNode(<<"e">>, Some(FALSE), "string", Some(<< <<"x">> >>), None),
       ParamNode(<<"z">>, None, "string", Some(<<>>), None) >>

\* a path item with a get whose 200 response has the JSON schema
GetItem(schema) ==
    [NoOperations EXCEPT !["get"] =
        Some(OperationNode(<<"g">>, QueryParams,
               << ResponseNode("200", <<MediaType("application/json", Some(schema))>>),
                  ResponseNode("404", <<>>) >>,
               None))]

\* a path item with a post whose body has the schema under the media type
PostItem(media, schema) ==
    [NoOperations EXCEPT !["post"] =
        Some(OperationNode(<<>>, <<>>,
               << ResponseNode("204", <<MediaType("text/plain", None)>>) >>,
               Some(BodyNode(<<MediaType(media, Some(schema))>>))))]

\* "#/components/schemas/A/properties/o" is a reference the document can
\* hold, and "o" is not a name of components.schemas
PathItems ==
    { GetItem(Ref("A")), GetItem(Ref("B")), GetItem(Ptr("A", "o")),
      PostItem("application/json", Ref("B")),
      PostItem("application/x-www-form-urlencoded", Ptr("A", "o")),
      [GetItem(Ref("B")) EXCEPT !["put"] =
          PostItem("application/json", Ptr("A", "o"))["post"]] }

LoaderComponents ==
    { [n \in {"A", "B"} |->
         IF n = "A"
         THEN Obj(<<Prop("o", Obj(<<Prop("v", StrS)>>)), Prop("x", x)>>)
         ELSE Leaf] : x \in {StrS, Ptr("A", "o")} }

PathNames == << <<"/", "a">>, <<"/", "a", "b">>, <<"/", "b">> >>

LoaderPaths ==
    { [i \in 1..3 |-> [path |-> PathNames[i], item |-> items[i]]] :
         items \in [1..3 -> PathItems] }

PatternLists ==
    { <<>>, << <<"/", "a">> >>, << <<"/", "b">> >>, << <<"/", ".", "b">> >>,
      << <<"/", "b">>, <<"/", "a">> >>, << <<"a">> >> }

----------------------------------------------------------------------------
(* The loader as a state machine: Config._from_api on one document *)

LoaderInit ==
    /\ api \in LoaderComponents
    /\ paths \in LoaderPaths
    /\ loads = <<>>
    /\ max_depth = DefaultMaxDepth
    /\ calls = <<>>
    /\ trace = <<>>
    /\ lastVisited = {}
    /\ operation = <<>>
    /\ tool = <<>>
    /\ requests = <<>>
    /\ NoManager

FromApiCall(path_patterns) ==
    /\ Len(loads) < MaxLoads
    /\ LET r == FromApi(api, paths, path_patterns)
       IN loads' = Append(loads, [path_patterns |-> path_patterns,
                                  raised |-> r.raised, paths |-> r.paths])
    /\ UNCHANGED <<api, max_depth, calls, trace, lastVisited, paths,
                   operation, tool, requests>>
    /\ UNCHANGED managerVars

LoaderNext == \E path_patterns \in PatternLists : FromApiCall(path_patterns)

SpecLoader == LoaderInit /\ [][LoaderNext]_vars

----------------------------------------------------------------------------
(* C8 *)

\* the paths of the document that a list of patterns selects, in order
Matching(path_patterns) ==
    SelectSeq(paths, LAMBDA p : MatchesAny(path_patterns, p.path))

\* the operation under method m of path item p resolves without a lookup
\* error
ResolvesAlone(p, m) ==
    /\ p.item[m] # None
    /\ ~ProcessOperation(api, p.path, p.item[m][1]).raised

\* C8: a lookup error (a referenced name that is not in components.schemas)
\* is confined to its operation: no call of _from_api raises, every call
\* returns all the matching paths of the document, and each returned path
\* holds exactly the operations that resolve, the failing ones being skipped.
C8_LookupErrorConfined ==
    \A k \in 1..Len(loads) :
        LET matching == Matching(loads[k].path_patterns)
        IN /\ ~loads[k].raised
           /\ Len(loads[k].paths) = Len(matching)
           /\ \A i \in 1..Len(matching) :
                 /\ loads[k].paths[i].path = matching[i].path
                 /\ \A m \in Methods :
                       loads[k].paths[i][m] # None <=> ResolvesAlone(matching[i], m)

----------------------------------------------------------------------------
(* The tool descriptor builder, Tool.from_operation, after the design      *)
(* (sections 4.2 and 4.3) and tests/test_tools.py.  Names, descriptions    *)
(* and enum values are sequences of characters.                            *)

JsonPrefix == <<"j", "_">>
ArrayMarker == <<"[", "]">>
FormEncoded == "application/x-www-form-urlencoded"
MaxDescription == 100

HasPrefix(s, pre) == Len(pre) <= Len(s) /\ SubSeq(s, 1, Len(pre)) = pre
HasSuffix(s, suf) ==
    Len(suf) <= Len(s) /\ SubSeq(s, Len(s) - Len(suf) + 1, Len(s)) = suf

\* sep.join(parts)
RECURSIVE Join(_, _)
Join(parts, sep) ==
    IF parts = <<>> THEN <<>>
    ELSE IF Len(parts) = 1 THEN parts[1]
    ELSE parts[1] \o sep \o Join(Tail(parts), sep)

\* the description left as long as it is
TruncateNever(d) == d

\* a description longer than the maximum is cut and ends with "..."
Truncate(d) ==
    IF Len(d) > MaxDescription
    THEN SubSeq(d, 1, MaxDescription - 3) \o <<".", ".", ".">>
    ELSE d

\* the name kept as it is, marker included
FlatNameKept(name) == name

\* "array_param[]" becomes "array_params"
FlatName(name) ==
    IF HasSuffix(name, ArrayMarker)
    THEN SubSeq(name, 1, Len(name) - Len(ArrayMarker)) \o <<"s">>
    ELSE name

\* string -> str, integer -> int, number -> float, boolean -> bool
PyType(t) ==
    CASE t = "string" -> "str"
      [] t = "integer" -> "int"
      [] t = "number" -> "float"
      [] t = "boolean" -> "bool"
      [] t = "object" -> "object"
      [] OTHER -> "str"

ListOf(t) ==
    CASE t = "int" -> "list[int]"
      [] t = "float" -> "list[float]"
      [] t = "bool" -> "list[bool]"
      [] OTHER -> "list[str]"

ToolParameter(name, type, description, default, request_body_field) ==
    [name |-> name, type |-> type, description |-> description,
     default |-> default, request_body_field |-> request_body_field]

\* a query or path Parameter becomes one ToolParameter
FromParameter(param) ==
    ToolParameter(
        FlatName(param.name),
        IF HasSuffix(param.name, ArrayMarker) \/ param.type = "array"
        THEN ListOf(PyType(param.type)) ELSE PyType(param.type),
        IF Truthy(param.enum)
        THEN Truncate(param.description
                        \o <<" ", "O", "p", "t", "i", "o", "n", "s", ":", " ">>
                        \o Join(param.enum[1], <<",", " ">>))
        ELSE param.description,
        param.default,
        None)

\* the prefix of the body parameters: none for a form-encoded body, the JSON
\* prefix otherwise
BodyPrefix(request_body) ==
    IF HasMedia(request_body.content, FormEncoded) THEN <<>> ELSE JsonPrefix

\* the summary of one anyOf branch: the names of an object's properties, a
\* scalar's own description
BranchSummary(branch) ==
    IF Truthy(branch.properties)
    THEN <<"O", "b", "j", "e", "c", "t", " ", "w", "i", "t", "h", " ",
           "p", "r", "o", "p", "e", "r", "t", "i", "e", "s", ":", " ">>
           \o Join([i \in 1..Len(branch.properties[1]) |->
                      branch.properties[1][i].name], <<",", " ">>)
    ELSE branch.description

OneOf(branches) ==
    <<"O", "n", "e", " ", "o", "f", ":", " ">>
      \o Join([i \in 1..Len(branches) |->
                 <<"(">> \o BranchSummary(branches[i]) \o <<")">>],
              <<" ", "O", "R", " ">>)

\* an anyOf property split into one parameter per branch
FromBodyPropertySplit(prefix, prop) ==
    IF Truthy(prop.any_of)
    THEN [i \in 1..Len(prop.any_of[1]) |->
            LET branch == prop.any_of[1][i]
            IN ToolParameter(prefix \o prop.name \o <<"_">> \o branch.name,
                             "str", branch.description, None, Some(prop.name))]
    ELSE IF Truthy(prop.properties)
    THEN [i \in 1..Len(prop.properties[1]) |->
            LET child == prop.properties[1][i]
            IN ToolParameter(prefix \o prop.name \o <<"_">> \o child.name,
                             PyType(child.type.v[1]), child.description,
                             None, Some(child.name))]
    ELSE << ToolParameter(prefix \o prop.name, PyType(prop.type.v[1]),
                          prop.description, None, Some(prop.name)) >>

\* the ToolParameters of one top-level property of the body schema: one for
\* a scalar and for an anyOf, one per child for an object with properties
FromBodyProperty(prefix, prop) ==
    IF Truthy(prop.any_of)
    THEN << ToolParameter(prefix \o prop.name, "str", OneOf(prop.any_of[1]),
                          None, Some(prop.name)) >>
    ELSE IF Truthy(prop.properties)
    THEN [i \in 1..Len(prop.properties[1]) |->
            LET child == prop.properties[1][i]
            IN ToolParameter(prefix \o prop.name \o <<"_">> \o child.name,
                             PyType(child.type.v[1]), child.description,
                             None, Some(child.name))]
    ELSE << ToolParameter(prefix \o prop.name, PyType(prop.type.v[1]),
                          prop.description, None, Some(prop.name)) >>

RECURSIVE Flatten(_)
Flatten(seqs) == IF seqs = <<>> THEN <<>> ELSE Head(seqs) \o Flatten(Tail(seqs))

FromRequestBody(request_body) ==
    IF request_body = None \/ request_body[1].schema_ = None
       \/ request_body[1].schema_[1].properties = None
    THEN <<>>
    ELSE LET props == request_body[1].schema_[1].properties[1]
         IN Flatten([i \in 1..Len(props) |->
                       FromBodyProperty(BodyPrefix(request_body[1]), props[i])])

\* the tool's name: "TestOperation" becomes "test_operation", a character
\* that cannot stand in an identifier becomes "_"
Lower(c) ==
    CASE c = "G" -> "g" [] c = "T" -> "t" [] c = "O" -> "o" [] OTHER -> c

ToolName(id) ==
    Flatten([i \in 1..Len(id) |->
               IF Lower(id[i]) # id[i]
               THEN (IF i > 1 THEN <<"_">> ELSE <<>>) \o <<Lower(id[i])>>
               ELSE IF id[i] \in {"/", "{", "}", "-", "."} THEN <<"_">>
               ELSE <<id[i]>>])

\* Tool.from_operation(path, method, operation)
FromOperation(path, method, op) ==
    [name |-> ToolName(op.id),
     description |-> op.summary,
     method |-> method,
     path |-> path,
     parameters |-> [i \in 1..Len(op.parameters) |->
                       FromParameter(op.parameters[i])]
                    \o FromRequestBody(op.request_body_)]

----------------------------------------------------------------------------
(* The invocation dispatcher: the function made for a tool *)

\* every parameter written under its flattened name, whatever its origin
BodyKeyFlattened(p) == p.name

\* only a parameter that records a body field is of the body
IsBodyParamRecorded(p) == p.request_body_field # None

\* a parameter of the body: it records a body field or carries the JSON prefix
IsBodyParam(p) == p.request_body_field # None \/ HasPrefix(p.name, JsonPrefix)

\* the key of a body parameter in the outgoing body: the recorded field, else
\* the name without the prefix ("j_body_param" is sent as "body_param")
BodyKey(p) ==
    IF p.request_body_field # None THEN p.request_body_field[1]
    ELSE SubSeq(p.name, Len(JsonPrefix) + 1, Len(p.name))

\* a value the caller passed
Value(v) == [wrapped |-> FALSE, v |-> Some(v)]

\* the default of the function's parameter: the Field object that carries the
\* declared default of the tool parameter
Field(default) == [wrapped |-> TRUE, v |-> default]

\* the default sent whatever the caller passed
ArgumentOfDefault(p, args) == Field(p.default)

\* the value sent for a parameter: the caller's, else the parameter's default
ArgumentOf(p, args) ==
    IF p.name \in DOMAIN args THEN Value(args[p.name]) ELSE Field(p.default)

\* every parameter written to the query map, whatever its origin
PartitionAllQuery(parameters, args, i, acc) ==
    [acc EXCEPT !.params =
        [n \in { parameters[j].name : j \in i..Len(parameters) } |->
           ArgumentOf(parameters[CHOOSE j \in i..Len(parameters) :
                                    parameters[j].name = n], args)]]

\* map[k] = v on a dict
Put(map, k, v) ==
    [x \in (DOMAIN map) \cup {k} |-> IF x = k THEN v ELSE map[x]]

\* the parameters, in order, each written to the body or to the query map
RECURSIVE Partition(_, _, _, _)
Partition(parameters, args, i, acc) ==
    IF i > Len(parameters) THEN acc
    ELSE LET p == parameters[i]
         IN Partition(parameters, args, i + 1,
               IF IsBodyParam(p)
               THEN [acc EXCEPT !.json = Put(@, BodyKey(p), ArgumentOf(p, args))]
               ELSE [acc EXCEPT !.params = Put(@, p.name, ArgumentOf(p, args))])

\* the request sent to the path alone, without the base URL
ToolFunctionPathOnly(t, args, base_url) ==
    LET parts == Partition(t.parameters, args, 1, [params |-> <<>>, json |-> <<>>])
    IN [method |-> t.method, url |-> t.path,
        params |-> parts.params, json |-> parts.json]

\* one invocation: the request handed to the proxy
ToolFunction(t, args, base_url) ==
    LET parts == Partition(t.parameters, args, 1, [params |-> <<>>, json |-> <<>>])
    IN [method |-> t.method, url |-> base_url \o t.path,
        params |-> parts.params, json |-> parts.json]

\* the request sent again when the response reports an error
ProxyCallsRetry(t, args, base_url, text) ==
    IF text = "not found"
    THEN << ToolFunction(t, args, base_url), ToolFunction(t, args, base_url) >>
    ELSE << ToolFunction(t, args, base_url) >>

\* the requests one invocation hands to the proxy, in order: one, whatever
\* the response is
ProxyCalls(t, args, base_url, text) == << ToolFunction(t, args, base_url) >>

\* a Python function cannot have two parameters of one name: the function of
\* such a tool cannot be made
WellFormed(t) ==
    \A i, j \in 1..Len(t.parameters) :
        i # j => t.parameters[i].name # t.parameters[j].name

----------------------------------------------------------------------------
(* The operations tools are built from *)

MaxInvocations == 1  \* invocations of the tool's function in one run

ParsedParameter(name, in_, type, enum, default) ==
    [name |-> name, in_ |-> in_, required |-> enum # None,
     description |-> <<"d">>, type |-> type, enum |-> enum, default |-> default]

QueryF == ParsedParameter(<<"f">>, "query", "string", None, None)
PathF == ParsedParameter(<<"f">>, "path", "integer", None, None)
QueryJF ==
    ParsedParameter(<<"j", "_", "f">>, "query", "string", None, Some(IntV(5)))
QueryFArray == ParsedParameter(<<"f", "[", "]">>, "query", "string", None, None)
QueryFs ==
    ParsedParameter(<<"f", "s">>, "query", "string",
                    Some(<< <<"x">>, <<"y">> >>), Some(IntV(7)))

\* the parameter with 20 options: "option0", ..., "option19"
Repeat(c, n) == [i \in 1..n |-> c]
Digit(d) == <<"0", "1", "2", "3", "4", "5", "6", "7", "8", "9">>[d + 1]
Digits(i) == IF i < 10 THEN <<Digit(i)>> ELSE <<Digit(i \div 10), Digit(i % 10)>>
Option(i) == <<"o", "p", "t", "i", "o", "n">> \o Digits(i)
LongEnum == [i \in 1..20 |-> Option(i - 1)]
ManyOptionsText ==
    <<"A", " ", "p", "a", "r", "a", "m", "e", "t", "e", "r", " ", "w", "i", "t", "h", " ">>
      \o <<"m", "a", "n", "y", " ", "e", "n", "u", "m", " ", "o", "p", "t", "i", "o", "n", "s">>
QueryLongEnum ==
    [ParsedParameter(<<"e">>, "query", "string", Some(LongEnum), None)
        EXCEPT !.description = ManyOptionsText]

\* an enum parameter with two options and a description of n characters
Described(n) ==
    [ParsedParameter(<<"e">>, "query", "string",
                     Some(<< <<"x">>, <<"y">> >>), None)
        EXCEPT !.description = Repeat("a", n)]

FieldF == SchemaProperty(<<"f">>, TStr("string"), <<"d">>)
FieldFs == SchemaProperty(<<"f", "s">>, TStr("integer"), <<"d">>)
FieldG ==
    [SchemaProperty(<<"g">>, TStr("object"), <<>>) EXCEPT
        !.properties = Some(<< SchemaProperty(<<"c">>, TStr("integer"), <<"d">>) >>)]
FieldU ==
    [SchemaProperty(<<"u">>, TList(<<"object", "string">>), <<>>) EXCEPT
        !.any_of = Some(<< [SchemaProperty(<<"O">>, TStr("object"), <<>>) EXCEPT
                              !.properties = Some(<<FieldF, FieldFs>>)],
                           SchemaProperty(<<"s">>, TStr("string"), <<"a">>) >>)]

ParsedBody(media, fields) ==
    Some([description |-> "", content |-> <<MediaType(media, None)>>,
          required |-> FALSE, schema_ |-> Some(Schema("Body", fields)),
          encoding |-> None])

ParsedOperation(params, body) ==
    [id |-> <<"G", "e", "t", "/", "a">>, summary |-> "", description |-> "",
     parameters |-> params, request_body_ |-> body, responses |-> <<>>]

\* at most two parameters, no two with the same name and location
ParameterLists ==
    { <<>>, <<QueryF>>, <<PathF>>, <<QueryJF>>, <<QueryFArray>>, <<QueryFs>>,
      <<PathF, QueryF>>, <<QueryJF, QueryFs>>, <<QueryFArray, QueryFs>>,
      <<QueryLongEnum>>, <<Described(86)>>, <<Described(87)>>,
      <<Described(95)>> }

Bodies ==
    { None, ParsedBody(FormEncoded, <<FieldF>>) }
      \cup { ParsedBody("application/json", fields) :
               fields \in { <<FieldF>>, <<FieldU>>, <<FieldG>>,
                            <<FieldF, FieldFs>> } }

ToolOperations ==
    { [path |-> <<"/", "a">>, method |-> IF body = None THEN "GET" ELSE "POST",
       op |-> ParsedOperation(params, body)] :
         params \in ParameterLists, body \in Bodies }

BaseUrl == <<"h", ":">>
ArgValues == { IntV(1), IntV(2) }
Texts == { "ok", "not found" }

\* the keyword arguments a caller can pass to the tool's function
ArgsOf(t) ==
    UNION { [names -> ArgValues] :
              names \in SUBSET { t.parameters[i].name : i \in 1..Len(t.parameters) } }

----------------------------------------------------------------------------
(* Building one tool and invoking it *)

ToolsInit ==
    /\ operation \in ToolOperations
    /\ tool = None
    /\ requests = <<>>
    /\ api = <<>>
    /\ max_depth = DefaultMaxDepth
    /\ calls = <<>>
    /\ trace = <<>>
    /\ lastVisited = {}
    /\ paths = <<>>
    /\ loads = <<>>
    /\ NoManager

FromOperationCall ==
    /\ tool = None
    /\ tool' = Some(FromOperation(operation.path, operation.method, operation.op))
    /\ UNCHANGED <<api, max_depth, calls, trace, lastVisited, paths, loads,
                   operation, requests>>
    /\ UNCHANGED managerVars

\* one call of the tool's function: it sends its request and returns the text
\* of the response
ToolCall(args, text) ==
    /\ tool # None
    /\ WellFormed(tool[1])
    /\ requests' = Append(requests,
                          [args |-> args,
                           request |-> ToolFunction(tool[1], args, BaseUrl),
                           sent |-> ProxyCalls(tool[1], args, BaseUrl, text),
                           response |-> text,
                           returned |-> text])
    /\ UNCHANGED <<api, max_depth, calls, trace, lastVisited, paths, loads,
                   operation, tool>>
    /\ UNCHANGED managerVars

Invoke(args, text) ==
    /\ Len(requests) < MaxInvocations
    /\ ToolCall(args, text)

ToolsNext ==
    \/ FromOperationCall
    \/ /\ tool # None
       /\ \E args \in ArgsOf(tool[1]), text \in Texts : Invoke(args, text)

SpecTools == ToolsInit /\ [][ToolsNext]_vars

----------------------------------------------------------------------------
(* Tools constructed directly, and the calls of their functions *)

MaxDispatches == 2  \* calls of the tool's function in one run

Param1 ==
    <<"p", "a", "r", "a", "m", "1">>
Param2 ==
    <<"p", "a", "r", "a", "m", "2">>
JBodyParam ==
    <<"j", "_", "b", "o", "d", "y", "_", "p", "a", "r", "a", "m">>
BodyParam ==
    <<"b", "o", "d", "y", "_", "p", "a", "r", "a", "m">>
TemperatureUnit ==
    <<"t", "e", "m", "p", "e", "r", "a", "t", "u", "r", "e", "_", "u", "n",
      "i", "t">>
WindSpeedUnit ==
    <<"w", "i", "n", "d", "_", "s", "p", "e", "e", "d", "_", "u", "n", "i",
      "t">>
TimeFormat ==
    <<"t", "i", "m", "e", "f", "o", "r", "m", "a", "t">>

\* Tool(name, description, parameters, method, path)
Tool(name, parameters, method, path) ==
    [name |-> name, description |-> "", method |-> method, path |-> path,
     parameters |-> parameters]

\* the tool of the dispatcher tests: two plain parameters and one carrying
\* the JSON prefix, none with a recorded body field or a default
MockTool ==
    Tool(<<"t">>,
         << ToolParameter(Param1, "str", <<"d">>, None, None),
            ToolParameter(Param2, "int", <<"d">>, None, None),
            ToolParameter(JBodyParam, "dict", <<"d">>, None, None) >>,
         "POST", <<"/", "t", "/", "p">>)

\* the weather tool: three plain parameters, each with a default
WeatherTool ==
    Tool(<<"g">>,
         << ToolParameter(TemperatureUnit, "str", <<"d">>, Some(IntV(5)), None),
            ToolParameter(WindSpeedUnit, "str", <<"d">>, Some(IntV(6)), None),
            ToolParameter(TimeFormat, "str", <<"d">>, Some(IntV(7)), None) >>,
         "GET", <<"/", "v", "1", "/", "f">>)

\* a tool as built from an operation: a query parameter f, the JSON body
\* field f and the form-style body field g, both recording their field
RecordedTool ==
    Tool(<<"r">>,
         << ToolParameter(<<"f">>, "str", <<"d">>, Some(IntV(5)), None),
            ToolParameter(JsonPrefix \o <<"f">>, "str", <<"d">>, None,
                          Some(<<"f">>)),
            ToolParameter(<<"g">>, "int", <<"d">>, Some(IntV(6)),
                          Some(<<"g">>)) >>,
         "PUT", <<"/", "r">>)

DirectTools == { MockTool, WeatherTool, RecordedTool }

\* the keyword arguments of one call: any subset of the parameters, all
\* supplied arguments of one call taking the same value
DispatchArgs(t) ==
    UNION { [names -> {v}] :
              names \in SUBSET { t.parameters[i].name : i \in 1..Len(t.parameters) },
              v \in ArgValues }

DispatchInit ==
    /\ tool \in { Some(t) : t \in DirectTools }
    /\ operation = <<>>
    /\ requests = <<>>
    /\ api = <<>>
    /\ max_depth = DefaultMaxDepth
    /\ calls = <<>>
    /\ trace = <<>>
    /\ lastVisited = {}
    /\ paths = <<>>
    /\ loads = <<>>
    /\ NoManager

Dispatch(args, text) ==
    /\ Len(requests) < MaxDispatches
    /\ ToolCall(args, text)

DispatchNext ==
    \E args \in DispatchArgs(tool[1]), text \in Texts : Dispatch(args, text)

SpecDispatch == DispatchInit /\ [][DispatchNext]_vars

\* the calls made so far, and the parameters of the tool
Invocations == 1..Len(requests)
Parameters == tool[1].parameters
Supplied(k, p) == p.name \in DOMAIN requests[k].args

----------------------------------------------------------------------------
(* C9: the names of a descriptor's parameters *)

Built == tool # None
ParameterNames == [i \in 1..Len(tool[1].parameters) |-> tool[1].parameters[i].name]

\* C9: the ToolParameter names of a descriptor built by Tool.from_operation
\* are pairwise distinct, whatever the query/path parameter names and the
\* body field names of the operation are.
C9_NamesDistinct ==
    Built => \A i, j \in 1..Len(ParameterNames) :
                i # j => ParameterNames[i] # ParameterNames[j]

----------------------------------------------------------------------------
(* C10: the round trip of a JSON body field *)

\* the top-level fields of a JSON body that flatten to one parameter each
JsonBodyFields ==
    LET body == operation.op.request_body_
    IN IF body = None \/ HasMedia(body[1].content, FormEncoded) THEN {}
       ELSE LET props == body[1].schema_[1].properties[1]
            IN { props[i].name : i \in { k \in 1..Len(props) :
                                           ~Truthy(props[k].properties) } }

\* the field is flattened to the prefixed name and records its own name
FlattenedWithPrefix(foo) ==
    \E i \in 1..Len(tool[1].parameters) :
        /\ tool[1].parameters[i].name = JsonPrefix \o foo
        /\ tool[1].parameters[i].request_body_field = Some(foo)

\* the invocations that pass a value for the parameter of the field
InvokedWith(foo) ==
    { k \in 1..Len(requests) : (JsonPrefix \o foo) \in DOMAIN requests[k].args }

\* the value passed is sent in the body under the field's own name
SentInBody(k, foo) ==
    /\ foo \in DOMAIN requests[k].request.json
    /\ requests[k].request.json[foo] = Value(requests[k].args[JsonPrefix \o foo])

\* the operation declares a query or path parameter flattened to this name
DeclaredInQuery(foo) ==
    \E i \in 1..Len(operation.op.parameters) :
        FlatName(operation.op.parameters[i].name) = foo

\* C10 (as amended): a JSON body field foo flattens to the parameter j_foo
\* whose request_body_field is foo; an invocation with value v for j_foo
\* sends a body with foo mapped to v; the query map has no entry j_foo, and
\* has an entry foo only when the operation also declares a query or path
\* parameter of that name.
C10_JsonRoundTrip ==
    Built => \A foo \in JsonBodyFields :
                /\ FlattenedWithPrefix(foo)
                /\ \A k \in InvokedWith(foo) :
                      /\ SentInBody(k, foo)
                      /\ (JsonPrefix \o foo) \notin DOMAIN requests[k].request.params
                      /\ foo \in DOMAIN requests[k].request.params
                            => DeclaredInQuery(foo)

\* a JSON body field was built and its parameter invoked with a value, beside
\* a query parameter of the same name
C10_Witness ==
    /\ Built
    /\ \E foo \in JsonBodyFields :
          /\ InvokedWith(foo) # {}
          /\ DeclaredInQuery(foo)
          /\ \A k \in InvokedWith(foo) : SentInBody(k, foo)

\* C10 as stated: the body holds foo mapped to v and the query map has no
\* entry for foo
C10_Original ==
    Built => \A foo \in JsonBodyFields :
                /\ FlattenedWithPrefix(foo)
                /\ \A k \in InvokedWith(foo) :
                      /\ SentInBody(k, foo)
                      /\ foo \notin DOMAIN requests[k].request.params

----------------------------------------------------------------------------
(* C11: the partition of the arguments *)

\* a parameter of body origin: it records its body field or is named with
\* the JSON prefix
BodyOrigin(p) == p.request_body_field # None \/ HasPrefix(p.name, JsonPrefix)

\* the key read from the descriptor: the recorded field, else the name
\* without the JSON prefix
KeyWithoutPrefix(p) ==
    IF p.request_body_field # None THEN p.request_body_field[1]
    ELSE SubSeq(p.name, Len(JsonPrefix) + 1, Len(p.name))

\* the key as stated: the recorded field, else the flattened name
KeyFlattened(p) ==
    IF p.request_body_field # None THEN p.request_body_field[1] ELSE p.name

DistinctBodyKeys ==
    \A i, j \in 1..Len(Parameters) :
        (i # j /\ BodyOrigin(Parameters[i]) /\ BodyOrigin(Parameters[j]))
            => KeyWithoutPrefix(Parameters[i]) # KeyWithoutPrefix(Parameters[j])

\* the entry of parameter p is in the body under key and p has no entry in
\* the query map
InBodyOnly(k, p, key) ==
    /\ key \in DOMAIN requests[k].request.json
    /\ requests[k].request.json[key] = ArgumentOf(p, requests[k].args)
    /\ p.name \notin DOMAIN requests[k].request.params

\* the entry of parameter p is in the query map under its name
InQuery(k, p) ==
    /\ p.name \in DOMAIN requests[k].request.params
    /\ requests[k].request.params[p.name] = ArgumentOf(p, requests[k].args)

\* the body and the query map hold one entry per parameter and no other
OneEntryEach(k) ==
    Cardinality(DOMAIN requests[k].request.params)
        + Cardinality(DOMAIN requests[k].request.json) = Len(Parameters)

----------------------------------------------------------------------------
(* C12: a prefixed parameter that records no body field *)

NoFieldRecorded ==
    \A i \in 1..Len(Parameters) : Parameters[i].request_body_field = None

Prefixed == { i \in 1..Len(Parameters) : HasPrefix(Parameters[i].name, JsonPrefix) }

WithoutPrefix(name) == SubSeq(name, Len(JsonPrefix) + 1, Len(name))

\* C12: for a tool whose parameters record no request_body_field, an
\* invocation with a value for a parameter named with the j_ prefix sends
\* that value in the JSON body under the name with the prefix removed
\* (j_body_param as body_param), and the query map holds exactly the
\* parameters without the prefix (param1, param2), with no entry for the
\* body parameter under either name.
C12_PrefixRemoved ==
    NoFieldRecorded =>
        \A k \in Invocations : \A i \in Prefixed :
            Supplied(k, Parameters[i]) =>
                /\ WithoutPrefix(Parameters[i].name) \in DOMAIN requests[k].request.json
                /\ requests[k].request.json[WithoutPrefix(Parameters[i].name)]
                      = Value(requests[k].args[Parameters[i].name])
                /\ DOMAIN requests[k].request.params
                      = { Parameters[j].name : j \in (1..Len(Parameters)) \ Prefixed }
                /\ Parameters[i].name \notin DOMAIN requests[k].request.params
                /\ WithoutPrefix(Parameters[i].name)
                      \notin DOMAIN requests[k].request.params

\* the tool of the tests was invoked with a value for j_body_param, which
\* was sent as body_param beside the query entries param1 and param2
C12_Witness ==
    /\ tool = Some(MockTool)
    /\ \E k \in Invocations :
          /\ JBodyParam \in DOMAIN requests[k].args
          /\ DOMAIN requests[k].request.json = {BodyParam}
          /\ DOMAIN requests[k].request.params = {Param1, Param2}

----------------------------------------------------------------------------
(* C13: defaults and supplied values *)

\* the outgoing entry of a parameter, in the body or in the query map
EntryOf(k, p) ==
    IF BodyOrigin(p) THEN requests[k].request.json[KeyWithoutPrefix(p)]
    ELSE requests[k].request.params[p.name]

\* C13: for every parameter of a descriptor, when the caller supplies no
\* value the outgoing query/body entry of the parameter carries its declared
\* default (as the default of the function's Field), and when the caller
\* supplies a value the entry is exactly that value, the default unused.
C13_DefaultOrSupplied ==
    \A k \in Invocations : \A i \in 1..Len(Parameters) :
        IF Supplied(k, Parameters[i])
        THEN /\ ~EntryOf(k, Parameters[i]).wrapped
             /\ EntryOf(k, Parameters[i]).v
                   = Some(requests[k].args[Parameters[i].name])
        ELSE EntryOf(k, Parameters[i]).v = Parameters[i].default

\* the weather tool was invoked once with no argument and once with a value
\* other than the default for each parameter
C13_Witness ==
    /\ tool = Some(WeatherTool)
    /\ \E k \in Invocations :
          /\ DOMAIN requests[k].args = {}
          /\ EntryOf(k, Parameters[1]).v = Some(IntV(5))
    /\ \E k \in Invocations :
          /\ \A i \in 1..Len(Parameters) :
                /\ Supplied(k, Parameters[i])
                /\ Some(requests[k].args[Parameters[i].name]) # Parameters[i].default
          /\ EntryOf(k, Parameters[1]) = Value(IntV(1))

----------------------------------------------------------------------------
(* C14: method, URL and returned text *)

----------------------------------------------------------------------------
(* C15: one request per invocation *)

\* the number of requests the first n invocations made through the proxy
RECURSIVE RequestsMade(_)
RequestsMade(n) ==
    IF n = 0 THEN 0 ELSE RequestsMade(n - 1) + Len(requests[n].sent)

----------------------------------------------------------------------------
(* C17: an enum forces required *)

\* the operations a load returned: load k, path i, method m
ReturnedOperations ==
    { kim \in (1..Len(loads)) \X (1..3) \X Methods :
        /\ kim[2] <= Len(loads[kim[1]].paths)
        /\ loads[kim[1]].paths[kim[2]][kim[3]] # None }

\* the parameters of the document's operations that the loads returned,
\* each with the Parameter made from it
ParameterPairs ==
    UNION { { [source |-> Matching(loads[kim[1]].path_patterns)[kim[2]]
                             .item[kim[3]][1].parameters[j],
               made |-> loads[kim[1]].paths[kim[2]][kim[3]][1].parameters[j]] :
                 j \in 1..Len(loads[kim[1]].paths[kim[2]][kim[3]][1].parameters) } :
              kim \in ReturnedOperations }

Declared(required) == required = Some(TRUE)

----------------------------------------------------------------------------
(* C19: the empty-list default *)

\* the default is present and is the empty list
EmptyListDefault(default) ==
    /\ default # None
    /\ default[1].kind = "list"
    /\ default[1].v = <<>>

\* C19: a parameter whose source schema declares the empty-array default []
\* keeps an empty-list default through Config._process_operation: the
\* Parameter made from it carries the default [] and not an absent default.
C19_EmptyListDefaultKept ==
    \A pair \in ParameterPairs :
        EmptyListDefault(pair.source.schema_.default)
            => EmptyListDefault(pair.made.default)

----------------------------------------------------------------------------
(* C18: the description of an enum parameter *)

\* the query and path parameters of the operation that declare an enum; the
\* tool's parameters start with theirs, in order
EnumParameters ==
    { i \in 1..Len(operation.op.parameters) :
        Truthy(operation.op.parameters[i].enum) }

OptionsLabel == <<" ", "O", "p", "t", "i", "o", "n", "s", ":", " ">>
Ellipsis == <<".", ".", ".">>

\* the original description, " Options: " and the values in declared order
FullText(param) ==
    param.description \o OptionsLabel \o Join(param.enum[1], <<",", " ">>)

BuiltDescription(i) == tool[1].parameters[i].description

\* C18 (as amended): the built description of an enum parameter is never
\* longer than 100 characters; it is the original description followed by
\* " Options: " and the enum values in declared order when that text has at
\* most 100 characters, and otherwise it ends with "..." and what precedes
\* the "..." is the beginning of that text.
C18_DescriptionBounded ==
    Built => \A i \in EnumParameters :
        /\ Len(BuiltDescription(i)) <= 100
        /\ IF Len(FullText(operation.op.parameters[i])) <= 100
           THEN BuiltDescription(i) = FullText(operation.op.parameters[i])
           ELSE /\ HasSuffix(BuiltDescription(i), Ellipsis)
                /\ HasPrefix(FullText(operation.op.parameters[i]),
                             SubSeq(BuiltDescription(i), 1,
                                    Len(BuiltDescription(i)) - Len(Ellipsis)))

\* the tool of the parameter with 20 options was built: its description is
\* cut, ends with "..." and starts with the original description,
\* " Options: " and the first options
C18_Witness ==
    /\ Built
    /\ operation.op.parameters = <<QueryLongEnum>>
    /\ Len(FullText(QueryLongEnum)) > 100
    /\ HasSuffix(BuiltDescription(1), Ellipsis)
    /\ HasPrefix(BuiltDescription(1),
                 ManyOptionsText \o OptionsLabel \o Option(0) \o <<",", " ">>
                    \o Option(1))

\* C18 as stated: the built description is at most 100 characters long and
\* starts with the original description followed by " Options: "
C18_Original ==
    Built => \A i \in EnumParameters :
        /\ Len(BuiltDescription(i)) <= 100
        /\ HasPrefix(BuiltDescription(i),
                     operation.op.parameters[i].description \o OptionsLabel)
        /\ Len(FullText(operation.op.parameters[i])) > 100
              => HasSuffix(BuiltDescription(i), Ellipsis)

----------------------------------------------------------------------------
(* C20: the array marker *)

\* the query parameters of the operation named with the array marker
MarkedParameters ==
    { i \in 1..Len(operation.op.parameters) :
        /\ operation.op.parameters[i].in_ = "query"
        /\ HasSuffix(operation.op.parameters[i].name, ArrayMarker) }

BaseName(name) == SubSeq(name, 1, Len(name) - Len(ArrayMarker))

----------------------------------------------------------------------------
(* C21: an anyOf property of the request body *)

\* the top-level properties of the body schema
BodyProperties ==
    IF operation.op.request_body_ = None THEN <<>>
    ELSE operation.op.request_body_[1].schema_[1].properties[1]

UnionProperties ==
    { i \in 1..Len(BodyProperties) : Truthy(BodyProperties[i].any_of) }

\* the parameters of the tool that come after those of the operation's own
\* parameters: the ones made from the body
BodyParameters == (Len(operation.op.parameters) + 1)..Len(tool[1].parameters)

\* the parameters made from the body property prop, under any name that
\* starts with the property's prefixed name
MadeFrom(prop) ==
    { i \in BodyParameters :
        HasPrefix(tool[1].parameters[i].name,
                  BodyPrefix(operation.op.request_body_[1]) \o prop.name) }

\* "(Object with properties: P, Q)" for an object branch, "(description)"
\* for a scalar branch
Parenthesised(branch) ==
    <<"(">>
      \o (IF branch.properties # None /\ branch.properties[1] # <<>>
          THEN <<"O", "b", "j", "e", "c", "t", " ", "w", "i", "t", "h", " ",
                 "p", "r", "o", "p", "e", "r", "t", "i", "e", "s", ":", " ">>
                 \o Join([j \in 1..Len(branch.properties[1]) |->
                            branch.properties[1][j].name], <<",", " ">>)
          ELSE branch.description)
      \o <<")">>

UnionText(prop) ==
    <<"O", "n", "e", " ", "o", "f", ":", " ">>
      \o Join([j \in 1..Len(prop.any_of[1]) |-> Parenthesised(prop.any_of[1][j])],
              <<" ", "O", "R", " ">>)

\* C21: a request-body property with anyOf branches flattens to exactly one
\* ToolParameter (not one per branch), typed str, whose description is
\* "One of: " followed by one parenthesised summary per branch, in branch
\* order, joined by " OR ": the names of the properties of an object branch,
\* the description of a scalar branch.
C21_UnionOneParameter ==
    Built => \A u \in UnionProperties :
        /\ Cardinality(MadeFrom(BodyProperties[u])) = 1
        /\ Len(BodyProperties) = 1 => Cardinality(BodyParameters) = 1
        /\ \A i \in MadeFrom(BodyProperties[u]) :
              /\ tool[1].parameters[i].type = "str"
              /\ tool[1].parameters[i].description = UnionText(BodyProperties[u])

\* the tool of a body with the union of an object (properties f, fs) and a
\* string (description a) was built: one parameter j_u, a str, described as
\* "One of: (Object with properties: f, fs) OR (a)"
C21_Witness ==
    /\ Built
    /\ UnionProperties # {}
    /\ \E i \in BodyParameters :
          /\ tool[1].parameters[i].name = <<"j", "_", "u">>
          /\ tool[1].parameters[i].type = "str"
          /\ tool[1].parameters[i].description
                = <<"O", "n", "e", " ", "o", "f", ":", " ", "(", "O", "b", "j",
                    "e", "c", "t", " ", "w", "i", "t", "h", " ", "p", "r", "o",
                    "p", "e", "r", "t", "i", "e", "s", ":", " ", "f", ",", " ",
                    "f", "s", ")", " ", "O", "R", " ", "(", "a", ")">>

----------------------------------------------------------------------------
(* C25: the route filter *)

\* the pattern, literal characters and ".", fits the beginning of the path
FitsStart(pattern, path) ==
    /\ Len(pattern) <= Len(path)
    /\ \A c \in 1..Len(pattern) : pattern[c] \in {".", path[c]}

\* the positions, in the document, of the paths that some pattern matches
MatchedPositions(path_patterns) ==
    { i \in 1..Len(paths) :
        \E n \in 1..Len(path_patterns) : FitsStart(path_patterns[n], paths[i].path) }

\* the names of the document's paths at the positions of a set, in document
\* order
RECURSIVE NamesAt(_, _)
NamesAt(positions, i) ==
    IF i > Len(paths) THEN <<>>
    ELSE (IF i \in positions THEN <<paths[i].path>> ELSE <<>>)
           \o NamesAt(positions, i + 1)

ReturnedNames(k) == [i \in 1..Len(loads[k].paths) |-> loads[k].paths[i].path]

\* an operation of the path at position i raises a lookup error
RaisesAt(i) ==
    \E m \in Methods :
        /\ paths[i].item[m] # None
        /\ ProcessOperation(api, paths[i].path, paths[i].item[m][1]).raised

\* C25: what Config._from_api returns is exactly the document's paths that
\* at least one configured pattern matches, in document order; a path that
\* no pattern matches is excluded without raising an error (a call raises
\* only for an operation of a matched path) and without affecting the
\* other paths.
C25_MatchedPathsOnly ==
    \A k \in 1..Len(loads) :
        /\ ~loads[k].raised
              => ReturnedNames(k)
                   = NamesAt(MatchedPositions(loads[k].path_patterns), 1)
        /\ loads[k].raised
              <=> \E i \in MatchedPositions(loads[k].path_patterns) : RaisesAt(i)

\* a call returned some of the document's paths and left out one whose
\* operation holds a reference that cannot be resolved
C25_Witness ==
    \E k \in 1..Len(loads) :
        /\ ~loads[k].raised
        /\ Len(loads[k].paths) > 0
        /\ Len(loads[k].paths) < Len(paths)
        /\ \E i \in (1..Len(paths)) \ MatchedPositions(loads[k].path_patterns) :
              RaisesAt(i)

----------------------------------------------------------------------------
(* C26: the nested properties of an inline object property *)

\* an inline object-typed property schema that declares properties: no
\* reference, no anyOf or allOf, no additionalProperties
InlineObject(schema) ==
    /\ ~HasRef(schema)
    /\ schema.type = "object"
    /\ schema.anyOf = <<>> /\ schema.allOf = <<>>
    /\ ~schema.additionalProperties
    /\ schema.properties # <<>>

\* the last call returned the properties of a schema that declares some
ReturnedProperties ==
    /\ Returned
    /\ LastCall.res # None
    /\ Root.allOf = <<>> /\ Root.anyOf = <<>>
    /\ Root.properties # <<>>

\* C26: for an inline object-typed property (no reference, no anyOf/allOf,
\* no additionalProperties) the resolved property's properties list holds
\* one entry for every nested property the object declares, scalar or
\* object, each under its own declared name and in declared order, a nested
\* scalar keeping its declared type.
C26_NestedPropertiesKept ==
    ReturnedProperties =>
        \A i \in 1..Len(Root.properties) :
            InlineObject(Root.properties[i].schema) =>
                LET declared == Root.properties[i].schema.properties
                    made == Result[i].properties
                IN /\ made # None
                   /\ Len(made[1]) = Len(declared)
                   /\ \A j \in 1..Len(declared) :
                         /\ made[1][j].name = declared[j].name
                         /\ declared[j].schema.type \in {"string", "integer"}
                               => made[1][j].type = TStr(declared[j].schema.type)

----------------------------------------------------------------------------
(* C27: anyOf on an object property and anyOf at the root *)

\* branches whose resolution does not depend on where they are resolved: a
\* scalar, or a reference to a component that is an object of scalars
SimpleBranches(branches) ==
    \A j \in 1..Len(branches) :
        IF HasRef(branches[j])
        THEN /\ Len(branches[j].ref) = 4
             /\ RefName(branches[j].ref) \in DOMAIN api
             /\ PlainObject(api[RefName(branches[j].ref)])
        ELSE branches[j].type \in {"string", "integer"}
               /\ branches[j].properties = <<>>

\* the property "any_of" that resolving a schema with these anyOf branches
\* returns
RootUnion(branches) ==
    Call(ProcessSchemaReq(api, [Blank EXCEPT !.anyOf = branches], 0, max_depth,
                          St0)).res[1].properties[1][1]

\* the properties of the root that carry an anyOf of their own
UnionProperty(i) ==
    /\ ~HasRef(Root.properties[i].schema)
    /\ Root.properties[i].schema.type \in {"", "object"}
    /\ Root.properties[i].schema.anyOf # <<>>
    /\ SimpleBranches(Root.properties[i].schema.anyOf)

\* C27: an anyOf that sits on an object-typed property is resolved by the
\* same union rule as an anyOf at the root of a schema: for the same list
\* of branches both produce the same type list and the same any_of content,
\* and any_of is null in both when no branch has properties.
C27_SameUnionRule ==
    ReturnedProperties =>
        \A i \in 1..Len(Root.properties) :
            UnionProperty(i) =>
                /\ Result[i].type = RootUnion(Root.properties[i].schema.anyOf).type
                /\ Result[i].any_of
                      = RootUnion(Root.properties[i].schema.anyOf).any_of

----------------------------------------------------------------------------
(* The ServerManager and the ConfigFileHandler.  The handler's coroutine   *)
(* runs on the event loop that also serves the listing requests; the file  *)
(* system events arrive on the watcher's thread.                           *)

MaxEvents == 2  \* file system events in one run
MaxTime == 2    \* seconds the clock advances in one run
MaxReads == 1   \* listing requests in one run

Route(path, namespace) == [path |-> path, namespace |-> namespace]

\* the routes setup_endpoints registers
ListingRoutes == << Route("/tools", ""), Route("/tools/{namespace}", "") >>

\* mcp.sse_app().routes of the server of a namespace
SseRoutes(namespace) ==
    << Route("/sse", namespace), Route("/messages/", namespace) >>

ServerConfig(namespace, url) == [namespace |-> namespace, url |-> url]

\* Spec.from_file / Spec.from_url returns: the document can be read
SpecLoads(url) == url # "file://missing"

\* a function can be made and registered for every tool of the spec
ToolsRegister(url) == url # "file://dup"

\* ServerManager.__init__ with the configuration the file holds
ServerManager(config) ==
    [config |-> config, servers |-> <<>>, tools |-> <<>>,
     routes |-> ListingRoutes]

\* start_server: an exception at any line leaves what was assigned before it
StartServer(sm, server_config) ==
    LET namespace == server_config.namespace
        with_tools == [sm EXCEPT !.tools = Put(@, namespace, server_config.url)]
    IN IF ~SpecLoads(server_config.url) THEN sm
       ELSE IF ~ToolsRegister(server_config.url) THEN with_tools
       ELSE [with_tools EXCEPT
               !.servers = Put(@, namespace, server_config.url),
               !.routes = @ \o SseRoutes(namespace)]

\* stop_servers
StopServers(sm) == [sm EXCEPT !.servers = <<>>, !.routes = <<>>]

\* every await of the handler hands control back to the loop
YieldsAtAwait(awaited) == TRUE

\* awaiting a coroutine that never suspends does not hand control back to
\* the loop: stop_servers and start_server hold no await of their own
Yields(awaited) == FALSE

\* a coroutine scheduled on the loop: _handle_config_change, or the first
\* start_servers (id 0)
Task(id, pc, i) == [id |-> id, pc |-> pc, i |-> i]

\* the loop after the coroutine at its head ran a step
Continue(task, awaited) ==
    IF Yields(awaited)
    THEN [loop EXCEPT !.ready = Tail(@) \o <<task>>, !.active = FALSE]
    ELSE [loop EXCEPT !.ready = <<task>> \o Tail(@), !.active = TRUE]

Finish == [loop EXCEPT !.ready = Tail(@), !.active = FALSE]

Running == ~loop.exited /\ loop.ready # <<>>

LogStep(id, step) == Append(history, [id |-> id, step |-> step])

----------------------------------------------------------------------------
(* The configurations *)

AB == << ServerConfig("a", "file://one"), ServerConfig("b", "file://one") >>
B2 == << ServerConfig("b", "file://two") >>
AMissingB ==
    << ServerConfig("a", "file://missing"), ServerConfig("b", "file://one") >>
ADup == << ServerConfig("a", "file://dup") >>
Configs == { AB, B2, AMissingB, ADup, <<>> }

EventKinds == { "yaml", "txt", "directory" }

----------------------------------------------------------------------------
(* The manager as a state machine *)

ManagerInit ==
    /\ config_file \in { Some(c) : c \in Configs }
    /\ server_manager = ServerManager(config_file[1])
    /\ loaded = <<config_file[1]>>
    /\ loop = [ready |-> <<Task(0, "start", 1)>>, active |-> FALSE,
               exited |-> FALSE, scheduled |-> 0]
    /\ handler = [last_modified |-> 0, events |-> 0]
    /\ now = 0
    /\ history = <<>>
    /\ reads = <<>>
    /\ api = <<>>
    /\ max_depth = DefaultMaxDepth
    /\ calls = <<>>
    /\ trace = <<>>
    /\ lastVisited = {}
    /\ paths = <<>>
    /\ loads = <<>>
    /\ operation = <<>>
    /\ tool = <<>>
    /\ requests = <<>>

Tick ==
    /\ now < MaxTime
    /\ now' = now + 1
    /\ UNCHANGED <<toolVars, server_manager, config_file, loop, handler,
                   history, loaded, reads>>

\* a file of the watched directory is modified: on_modified
OnModified(kind, content) ==
    /\ ~loop.exited
    /\ handler.events < MaxEvents
    /\ config_file' = IF kind = "yaml" THEN content ELSE config_file
    /\ IF kind # "yaml" \/ now - handler.last_modified < 1
       THEN /\ handler' = [handler EXCEPT !.events = @ + 1]
            /\ UNCHANGED loop
       ELSE /\ handler' = [last_modified |-> now, events |-> handler.events + 1]
            /\ loop' = [loop EXCEPT
                          !.ready = Append(@, Task(loop.scheduled + 1, "stop", 1)),
                          !.scheduled = @ + 1]
    /\ UNCHANGED <<toolVars, server_manager, now, history, loaded, reads>>

\* await self.server_manager.stop_servers()
StopServersStep ==
    /\ Running
    /\ Head(loop.ready).pc = "stop"
    /\ server_manager' = StopServers(server_manager)
    /\ history' = LogStep(Head(loop.ready).id, "stop_servers")
    /\ loop' = Continue([Head(loop.ready) EXCEPT !.pc = "load"], "stop_servers")
    /\ UNCHANGED <<toolVars, config_file, handler, now, loaded, reads>>

\* self.server_manager.load_config(): sys.exit(1) when the file cannot be
\* read
LoadConfigStep ==
    /\ Running
    /\ Head(loop.ready).pc = "load"
    /\ IF config_file = None
       THEN /\ loop' = [Finish EXCEPT !.exited = TRUE]
            /\ history' = LogStep(Head(loop.ready).id, "exit")
            /\ UNCHANGED <<server_manager, loaded>>
       ELSE /\ server_manager' = [server_manager EXCEPT !.config = config_file[1]]
            /\ loaded' = Append(loaded, config_file[1])
            /\ history' = LogStep(Head(loop.ready).id, "load_config")
            /\ loop' = [loop EXCEPT
                          !.ready = <<[Head(loop.ready) EXCEPT !.pc = "start"]>>
                                      \o Tail(@),
                          !.active = TRUE]
    /\ UNCHANGED <<toolVars, config_file, handler, now, reads>>

\* await self.server_manager.start_servers(): the loop over the servers of
\* the configuration begins
StartServersStep ==
    /\ Running
    /\ Head(loop.ready).pc = "start"
    /\ history' = LogStep(Head(loop.ready).id, "start_servers")
    /\ loop' = IF server_manager.config = <<>> THEN Finish
               ELSE [loop EXCEPT
                       !.ready = <<[Head(loop.ready) EXCEPT !.pc = "server"]>>
                                   \o Tail(@),
                       !.active = TRUE]
    /\ UNCHANGED <<toolVars, server_manager, config_file, handler, now,
                   loaded, reads>>

\* await self.start_server(server_config), for the next server
StartServerStep ==
    /\ Running
    /\ Head(loop.ready).pc = "server"
    /\ server_manager' =
          StartServer(server_manager, server_manager.config[Head(loop.ready).i])
    /\ history' = LogStep(Head(loop.ready).id, "start_server")
    /\ loop' = IF Head(loop.ready).i = Len(server_manager.config) THEN Finish
               ELSE Continue([Head(loop.ready) EXCEPT !.i = @ + 1], "start_server")
    /\ UNCHANGED <<toolVars, config_file, handler, now, loaded, reads>>

\* a listing request, get_all_tools: it runs on the loop, between the
\* coroutines' turns
GetAllTools ==
    /\ ~loop.exited
    /\ ~loop.active
    /\ Len(reads) < MaxReads
    /\ reads' = Append(reads, [tools |-> server_manager.tools,
                               servers |-> server_manager.servers,
                               routes |-> server_manager.routes,
                               loaded |-> Len(loaded),
                               steps |-> Len(history)])
    /\ UNCHANGED <<toolVars, server_manager, config_file, loop, handler, now,
                   history, loaded>>

ManagerNext ==
    \/ Tick
    \/ \E kind \in EventKinds, content \in { Some(c) : c \in Configs } \cup {None} :
          OnModified(kind, content)
    \/ StopServersStep
    \/ LoadConfigStep
    \/ StartServersStep
    \/ StartServerStep
    \/ GetAllTools

SpecManager == ManagerInit /\ [][ManagerNext]_vars

----------------------------------------------------------------------------
(* C22: the steps of a reload *)

\* the steps that the reload of event id has run, in the order they ran
StepsOf(id) ==
    LET own == SelectSeq(history, LAMBDA e : e.id = id)
    IN [k \in 1..Len(own) |-> own[k].step]

\* the events accepted so far, and those whose coroutine is no longer
\* scheduled
Accepted == 1..loop.scheduled
Completed(id) ==
    /\ id \in Accepted
    /\ \A k \in 1..Len(loop.ready) : loop.ready[k].id # id

\* the configuration that the reload of event id read: the first was read
\* by the constructor
ConfigOf(id) == loaded[id + 1]

\* stop_servers, then load_config, then start_servers and its servers
InOrder(id) ==
    \A k \in 1..Len(StepsOf(id)) :
        StepsOf(id)[k] = CASE k = 1 -> "stop_servers"
                           [] k = 2 -> IF StepsOf(id)[2] = "exit" THEN "exit"
                                       ELSE "load_config"
                           [] k = 3 -> "start_servers"
                           [] OTHER -> "start_server"

\* no step of another reload between two steps of one reload, and the
\* reloads in the order of their events
Serialized ==
    /\ \A x, y \in 1..Len(history) : x < y => history[x].id <= history[y].id
    /\ \A y \in 1..Len(history) :
          \A id \in Accepted : id < history[y].id => Completed(id)

\* the reload ran all its steps: every server of the configuration it read
RanAll(id) ==
    /\ Len(StepsOf(id)) >= 3
    /\ Len(StepsOf(id)) = 3 + Len(ConfigOf(id))

----------------------------------------------------------------------------
(* C23, C24: the registries and the configuration *)

\* the servers of a configuration that start: the spec loads and its tools
\* register
Starts(server_config) ==
    server_config.url \notin {"file://missing", "file://dup"}

\* the registry of a configuration: its started namespaces, each with the
\* spec it was built from
Registry(config) ==
    [namespace \in { config[i].namespace :
                       i \in { j \in 1..Len(config) : Starts(config[j]) } } |->
        config[CHOOSE i \in 1..Len(config) : config[i].namespace = namespace].url]

\* the registry after g configurations were loaded and started; nothing is
\* registered before the first start
RegistryAt(g) == IF g = 0 THEN <<>> ELSE Registry(loaded[g])

\* C23: a reader of the tool registry (a listing request) that runs
\* concurrently with a reload observes either the complete registry of the
\* old configuration or the complete registry of the new one, in tools and
\* in servers alike, never a partially rebuilt one.
C23_ReadersSeeWholeRegistry ==
    \A k \in 1..Len(reads) :
        \E g \in { reads[k].loaded - 1, reads[k].loaded } :
            /\ reads[k].tools = RegistryAt(g)
            /\ reads[k].servers = RegistryAt(g)

\* the first start and every reload begun have completed
Settled ==
    /\ ~loop.exited
    /\ ~loop.active
    /\ history # <<>>
    /\ \A k \in 1..Len(loop.ready) : loop.ready[k].id # 0

\* C24: after any sequence of reloads the registries, servers and tools,
\* hold exactly the namespaces of the most recently loaded configuration
\* whose servers started; a namespace of an earlier configuration that is
\* absent from the current one is in neither registry.
C24_RegistriesMatchConfig ==
    Settled =>
        /\ DOMAIN server_manager.servers = DOMAIN Registry(server_manager.config)
        /\ DOMAIN server_manager.tools = DOMAIN Registry(server_manager.config)

----------------------------------------------------------------------------
(* C28: the routes *)

Routes == { server_manager.routes[i] : i \in 1..Len(server_manager.routes) }

\* C28: after any sequence of stop_servers / load_config / start_servers
\* the route list that get_app serves still holds the listing routes /tools
\* and /tools/{namespace} registered at construction, together with the
\* routes of every started server.
C28_ListingRoutesKept ==
    /\ \A i \in 1..Len(ListingRoutes) : ListingRoutes[i] \in Routes
    /\ \A namespace \in DOMAIN server_manager.servers :
          \A i \in 1..Len(SseRoutes(namespace)) : SseRoutes(namespace)[i] \in Routes

====
